---- MODULE Spec2Model ----
(***************************************************************************)
(* Model of jig's schema normalization / key restoration layer             *)
(* (src/jig/utils.py) as used by the orchestration layer: a schema is      *)
(* normalized, the backend answers against the normalized schema, and the  *)
(* answer's keys are restored.                                             *)
(*                                                                         *)
(* JSON values are tagged records.  A Python dict is the sequence of its   *)
(* <<key, value>> pairs in insertion order (keys unique); a Python list is *)
(* a sequence of values.                                                   *)
(***************************************************************************)
EXTENDS Integers, Sequences, FiniteSets, TLC

(***************************************************************************)
(* JSON / Python values                                                    *)
(***************************************************************************)
Null == [t |-> "null"]
Bool(b) == [t |-> "bool", b |-> b]
Num(n) == [t |-> "num", n |-> n]
Str(s) == [t |-> "str", s |-> s]
List(e) == [t |-> "list", e |-> e]
Dict(kv) == [t |-> "dict", kv |-> kv]

\* The outcome of an attribute lookup that fails (AttributeError): the
\* call that evaluates it does not return.
Raise == [t |-> "raise"]

IsDict(x) == x.t = "dict"
IsList(x) == x.t = "list"
IsBool(x) == x.t = "bool"
IsStr(x) == x.t = "str"

\* Python truthiness (bool(x)).
Truthy(x) ==
    CASE x.t = "null" -> FALSE
      [] x.t = "bool" -> x.b
      [] x.t = "num" -> x.n # 0
      [] x.t = "str" -> x.s # ""
      [] x.t = "list" -> x.e # << >>
      [] x.t = "dict" -> x.kv # << >>
      [] OTHER -> TRUE

\* `k in d`
HasKey(d, k) == \E i \in DOMAIN d.kv : d.kv[i][1] = k

\* d.get(k, default)
GetOr(d, k, default) ==
    IF HasKey(d, k)
    THEN LET i == CHOOSE j \in DOMAIN d.kv : d.kv[j][1] = k IN d.kv[i][2]
    ELSE default

\* d.get(k): None when the key is missing
Get(d, k) == GetOr(d, k, Null)

\* d[k] = v on the pair sequence: an existing key keeps its position.
PutKV(kv, k, v) ==
    IF \E i \in DOMAIN kv : kv[i][1] = k
    THEN [i \in DOMAIN kv |-> IF kv[i][1] = k THEN <<k, v>> ELSE kv[i]]
    ELSE Append(kv, <<k, v>>)

Put(d, k, v) == Dict(PutKV(d.kv, k, v))

\* list(d.keys()) as a JSON list of strings
KeyList(d) == List([i \in DOMAIN d.kv |-> Str(d.kv[i][1])])

KeySeq(d) == [i \in DOMAIN d.kv |-> d.kv[i][1]]

KeySet(d) == {d.kv[i][1] : i \in DOMAIN d.kv}

\* x.keys() of an arbitrary value: only a dict has the attribute.
KeysOf(x) == IF IsDict(x) THEN KeyList(x) ELSE Raise

(***************************************************************************)
(* Constants of utils.py                                                   *)
(***************************************************************************)
_RESERVED_PROP_NAMES == {"required", "properties", "type", "items", "additionalProperties"}

_RESERVED_RENAME_PREFIX == "_prop_"

NewName(k) == _RESERVED_RENAME_PREFIX \o k

(***************************************************************************)
(* normalize_schema_for_backend                                            *)
(***************************************************************************)
\* No copy at all: the "copy" is the argument object.
AliasCopy(obj) == [val |-> obj, same |-> TRUE]

\* copy.deepcopy(obj): an equal value in a new object graph.  `same` tells
\* whether the result is the argument object itself, i.e. whether writes to
\* the result are writes to the argument.
DeepCopy(obj) == [val |-> obj, same |-> FALSE]

RECURSIVE _norm(_)
RECURSIVE NewProps(_, _)
RECURSIVE RenameEntries(_)

\* The loop over props.items() after its first n iterations.
NewProps(kv, n) ==
    IF n = 0 THEN << >>
    ELSE LET k == kv[n][1]
             v == kv[n][2]
         IN IF k \in _RESERVED_PROP_NAMES
            THEN PutKV(NewProps(kv, n - 1), NewName(k), _norm(v))
            ELSE PutKV(NewProps(kv, n - 1), k, _norm(v))

\* [_norm(x) if isinstance(x, dict) else x for x in xs]
NormEach(xs) == [i \in DOMAIN xs |-> IF IsDict(xs[i]) THEN _norm(xs[i]) ELSE xs[i]]

NormProperties(out) ==
    LET props == Get(out, "properties")
    IN IF IsDict(props)
       THEN Put(out, "properties", Dict(NewProps(props.kv, Len(props.kv))))
       ELSE out

NormItems(out) ==
    LET items == Get(out, "items")
    IN IF IsDict(items) THEN Put(out, "items", _norm(items))
       ELSE IF IsList(items) THEN Put(out, "items", List(NormEach(items.e)))
       ELSE out

IsStrList(req) == IsList(req) /\ \A i \in DOMAIN req.e : IsStr(req.e[i])

\* [k for k, v in req.items() if v]
TruthyKeys(req) ==
    List(SelectSeq([i \in DOMAIN req.kv |-> req.kv[i]], LAMBDA p : Truthy(p[2])))

NormRequired(out) ==
    LET req == Get(out, "required")
    IN IF req # Null
       THEN IF IsStrList(req) THEN out
            ELSE IF IsBool(req)
                 THEN Put(out, "required",
                          IF req.b THEN KeysOf(GetOr(out, "properties", Dict(<< >>)))
                          ELSE List(<< >>))
            ELSE IF IsDict(req)
                 THEN Put(out, "required",
                          List([i \in DOMAIN TruthyKeys(req).e |-> Str(TruthyKeys(req).e[i][1])]))
            ELSE Put(out, "required",
                     IF Truthy(Get(out, "properties"))
                     THEN KeysOf(GetOr(out, "properties", Dict(<< >>)))
                     ELSE List(<< >>))
       ELSE IF IsDict(Get(out, "properties")) /\ Truthy(Get(out, "properties"))
            THEN Put(out, "required", List(<< >>))
            ELSE out

NormComposite(out, key) ==
    IF HasKey(out, key) /\ IsList(Get(out, key))
    THEN Put(out, key, List(NormEach(Get(out, key).e)))
    ELSE out

\* A normalizer that does not descend into $defs.
SkipDefs(out) == out

NormDefs(out) ==
    IF HasKey(out, "$defs") /\ IsDict(Get(out, "$defs"))
    THEN LET defs == Get(out, "$defs")
         IN Put(out, "$defs",
                Dict([i \in DOMAIN defs.kv |->
                        <<defs.kv[i][1],
                          IF IsDict(defs.kv[i][2]) THEN _norm(defs.kv[i][2])
                          ELSE defs.kv[i][2]>>]))
    ELSE out

_norm(obj) ==
    IF ~IsDict(obj) THEN obj
    ELSE LET out == DeepCopy(obj).val
         IN NormDefs(
              NormComposite(
                NormComposite(
                  NormComposite(
                    NormRequired(NormItems(NormProperties(out))),
                    "anyOf"),
                  "oneOf"),
                "allOf"))

\* The entries _norm(obj) adds to rename_map, as <<new_name, original>> pairs.
EntriesOfEach(xs) ==
    UNION {IF IsDict(xs[i]) THEN RenameEntries(xs[i]) ELSE {} : i \in DOMAIN xs}

EntriesOfComposite(obj, key) ==
    IF HasKey(obj, key) /\ IsList(Get(obj, key))
    THEN EntriesOfEach(Get(obj, key).e)
    ELSE {}

RenameEntries(obj) ==
    IF ~IsDict(obj) THEN {}
    ELSE LET props == Get(obj, "properties")
             items == Get(obj, "items")
             defs == Get(obj, "$defs")
         IN (IF IsDict(props)
             THEN {<<NewName(k), k>> : k \in KeySet(props) \cap _RESERVED_PROP_NAMES}
                  \cup UNION {RenameEntries(props.kv[i][2]) : i \in DOMAIN props.kv}
             ELSE {})
            \cup (IF IsDict(items) THEN RenameEntries(items)
                  ELSE IF IsList(items) THEN EntriesOfEach(items.e)
                  ELSE {})
            \cup EntriesOfComposite(obj, "anyOf")
            \cup EntriesOfComposite(obj, "oneOf")
            \cup EntriesOfComposite(obj, "allOf")
            \cup (IF HasKey(obj, "$defs") /\ IsDict(defs)
                  THEN EntriesOfEach([i \in DOMAIN defs.kv |-> defs.kv[i][2]])
                  ELSE {})

\* A Python Dict[str, str] as a function from its keys.
MapOf(entries) ==
    [n \in {e[1] : e \in entries} |-> (CHOOSE e \in entries : e[1] = n)[2]]

EmptyMap == MapOf({})

RECURSIVE _fix_required(_)

\* A rewrite of required that puts the prefix before every entry.
PrefixEvery(obj) ==
    LET props == Get(obj, "properties")
        req == Get(obj, "required")
    IN IF IsDict(props) /\ IsList(req)
       THEN Put(obj, "required",
                List([i \in DOMAIN req.e |->
                        IF IsStr(req.e[i]) THEN Str(NewName(req.e[i].s)) ELSE req.e[i]]))
       ELSE obj

FixRequiredList(obj) ==
    LET props == Get(obj, "properties")
        req == Get(obj, "required")
    IN IF IsDict(props) /\ IsList(req)
       THEN Put(obj, "required",
                List([i \in DOMAIN req.e |->
                        IF IsStr(req.e[i]) /\ req.e[i].s \in _RESERVED_PROP_NAMES
                        THEN Str(NewName(req.e[i].s))
                        ELSE req.e[i]]))
       ELSE obj

\* for v in (obj.get("properties") or {}).values(): _fix_required(v)
FixProperties(obj) ==
    LET props == Get(obj, "properties")
    IN IF ~Truthy(props) THEN obj
       ELSE IF ~IsDict(props) THEN Put(obj, "properties", Raise)
       ELSE Put(obj, "properties",
                Dict([i \in DOMAIN props.kv |->
                        <<props.kv[i][1], _fix_required(props.kv[i][2])>>]))

FixItems(obj) ==
    IF HasKey(obj, "items") /\ IsDict(Get(obj, "items"))
    THEN Put(obj, "items", _fix_required(Get(obj, "items")))
    ELSE obj

\* The object graph rooted at obj after _fix_required(obj) has updated it.
_fix_required(obj) ==
    IF ~IsDict(obj) THEN obj
    ELSE FixItems(FixProperties(FixRequiredList(obj)))

\* Does the value hold the outcome of a failed attribute lookup?
RECURSIVE Raised(_)
Raised(x) ==
    CASE x.t = "raise" -> TRUE
      [] x.t = "dict" -> \E i \in DOMAIN x.kv : Raised(x.kv[i][2])
      [] x.t = "list" -> \E i \in DOMAIN x.e : Raised(x.e[i])
      [] OTHER -> FALSE

\* if not schema or not isinstance(schema, dict): return schema, {}
ReturnsInput(schema) == ~Truthy(schema) \/ ~IsDict(schema)

\* The call's outcome: raised, or the returned pair; `same` tells whether
\* the returned schema is the argument object itself.
normalize_schema_for_backend(schema) ==
    IF ReturnsInput(schema)
    THEN [raised |-> FALSE, schema |-> schema, rename_map |-> EmptyMap, same |-> TRUE]
    ELSE LET normalized == _norm(schema)
         IN IF Raised(normalized) \/ Raised(_fix_required(normalized))
            THEN [raised |-> TRUE, schema |-> Null, rename_map |-> EmptyMap,
                  same |-> DeepCopy(schema).same]
            ELSE [raised |-> FALSE, schema |-> _fix_required(normalized),
                  rename_map |-> MapOf(RenameEntries(schema)),
                  same |-> DeepCopy(schema).same]

(***************************************************************************)
(* restore_response_keys                                                   *)
(***************************************************************************)
RECURSIVE restore_response_keys(_, _)
RECURSIVE RestoreItems(_, _, _)

\* A restorer that keeps every key as it is.
KeepKey(k, map) == k

\* key = rename_map.get(k, k)
RestoredKey(k, map) == IF k \in DOMAIN map THEN map[k] ELSE k

\* The loop over data.items() after its first n iterations.
RestoreItems(kv, n, map) ==
    IF n = 0 THEN << >>
    ELSE PutKV(RestoreItems(kv, n - 1, map), RestoredKey(kv[n][1], map),
               restore_response_keys(kv[n][2], map))

\* A restorer that renames the keys of mappings but leaves sequences as
\* they are.
RestoreNoLists(data, rename_map) ==
    IF DOMAIN rename_map = {} THEN data
    ELSE IF IsDict(data) THEN Dict(RestoreItems(data.kv, Len(data.kv), rename_map))
    ELSE data

restore_response_keys(data, rename_map) ==
    IF DOMAIN rename_map = {} THEN data
    ELSE IF IsDict(data) THEN Dict(RestoreItems(data.kv, Len(data.kv), rename_map))
    ELSE IF IsList(data)
         THEN List([i \in DOMAIN data.e |-> restore_response_keys(data.e[i], rename_map)])
    ELSE data

(***************************************************************************)
(* The schemas the caller may pass                                         *)
(***************************************************************************)
\* Largest number of properties declared at one object node.
MaxProps == 2

PropNames == {"type", "_prop_type", "a"}

StrSchema == Dict(<< <<"type", Str("string")>> >>)

Leaves == {Dict(<< >>), StrSchema}

\* Sequences of distinct property names (a dict's keys in declaration order).
KeySeqs ==
    UNION {{ks \in [1..n -> PropNames] : \A i, j \in 1..n : i # j => ks[i] # ks[j]}
           : n \in 0..MaxProps}

PropMaps ==
    UNION {{Dict([i \in DOMAIN ks |-> <<ks[i], vs[i]>>]) : vs \in [DOMAIN ks -> Leaves]}
           : ks \in KeySeqs}

\* "properties": absent, malformed (null, a list), or a map.
PropsEntries ==
    {<< >>} \cup {<< <<"properties", p>> >> : p \in {Null, List(<<Str("a")>>)} \cup PropMaps}

RequiredShapes ==
    { Null, Bool(TRUE), Bool(FALSE), Num(5),
      Dict(<< <<"type", Bool(TRUE)>>, <<"a", Bool(FALSE)>> >>),
      Dict(<< <<"a", Num(1)>>, <<"type", Str("")>> >>),
      List(<<Num(5), Str("a")>>),
      List(<< >>), List(<<Str("a")>>), List(<<Str("type")>>),
      List(<<Str("a"), Str("type")>>), List(<<Str("type"), Str("a")>>) }

\* "required": absent or of any JSON shape.
RequiredEntries == {<< >>} \cup {<< <<"required", r>> >> : r \in RequiredShapes}

ObjNodes == {Dict(pe \o re) : pe \in PropsEntries, re \in RequiredEntries}

\* Schemas holding the object node c one level down.
Nesting(c) ==
    { Dict(<< <<"type", Str("array")>>, <<"items", c>> >>),
      Dict(<< <<"items", List(<<Bool(TRUE), c>>)>> >>),
      Dict(<< <<"anyOf", List(<<c, Null>>)>> >>),
      Dict(<< <<"oneOf", List(<<c>>)>> >>),
      Dict(<< <<"allOf", List(<<c>>)>> >>),
      Dict(<< <<"$defs", Dict(<< <<"d", c>>, <<"e", Bool(TRUE)>> >>)>> >>),
      Dict(<< <<"not", c>> >>) }
    \cup UNION {{Dict(<< <<"properties", Dict(<< <<k, c>> >>)>> >> \o re)
                 : re \in {<< >>, << <<"required", Bool(TRUE)>> >>,
                           << <<"required", List(<<Str(k)>>)>> >>}}
                : k \in PropNames}

\* Values that are empty or not an object schema.
NonObjects == {Null, List(<< >>), List(<<Num(1)>>)}

Schemas == NonObjects \cup ObjNodes \cup UNION {Nesting(c) : c \in ObjNodes}

(***************************************************************************)
(* Responses                                                               *)
(***************************************************************************)
LeafValues == {Num(1), Str("x")}

\* The response that fills in every declared property of the schema, with
\* the scalar leaf wherever the schema declares no structure.
RECURSIVE Full(_, _)
Full(node, leaf) ==
    IF ~IsDict(node) THEN leaf
    ELSE LET props == Get(node, "properties")
             items == Get(node, "items")
             alts == <<Get(node, "anyOf"), Get(node, "oneOf"), Get(node, "allOf")>>
         IN IF IsDict(props)
            THEN Dict([i \in DOMAIN props.kv |->
                         <<props.kv[i][1], Full(props.kv[i][2], leaf)>>])
            ELSE IF IsDict(items) THEN List(<<Full(items, leaf)>>)
            ELSE IF IsList(items)
                 THEN List([i \in DOMAIN items.e |-> Full(items.e[i], leaf)])
            ELSE IF \E i \in 1..3 : IsList(alts[i]) /\ alts[i].e # << >>
                 THEN LET i == CHOOSE j \in 1..3 : IsList(alts[j]) /\ alts[j].e # << >>
                      IN Full(alts[i].e[1], leaf)
            ELSE leaf

Responses(node) == {Full(node, leaf) : leaf \in LeafValues}

\* A response to the caller's schema with its keys renamed the way
\* the normalizer renames properties.
RECURSIVE RenameKeys(_)
RECURSIVE RenameKeysItems(_, _)
RenameKeysItems(kv, n) ==
    IF n = 0 THEN << >>
    ELSE PutKV(RenameKeysItems(kv, n - 1),
               IF kv[n][1] \in _RESERVED_PROP_NAMES THEN NewName(kv[n][1]) ELSE kv[n][1],
               RenameKeys(kv[n][2]))

RenameKeys(data) ==
    IF IsDict(data) THEN Dict(RenameKeysItems(data.kv, Len(data.kv)))
    ELSE IF IsList(data) THEN List([i \in DOMAIN data.e |-> RenameKeys(data.e[i])])
    ELSE data

(***************************************************************************)
(* State                                                                   *)
(***************************************************************************)
VARIABLES
    pc,          \* where the request/response cycle stands
    schema,      \* the caller's schema object
    normalized,  \* the schema returned by normalize_schema_for_backend
    rename_map,  \* the rename map returned with it
    same,        \* the returned schema is the caller's object itself
    expected,    \* a response in terms of the caller's schema
    response,    \* the backend's response to the normalized schema
    restored     \* the response after restore_response_keys

\* One backend client (LMStudioClient or OllamaClient) and its latest call.
VARIABLES
    kind,        \* "lmstudio" or "ollama": the class of the client
    model,       \* self.model
    configured,  \* self.model when the latest call began
    backend,     \* what the model-list request of the latest call met
    chat,        \* what the chat request of the latest call met
    ret,         \* how the latest call ended
    defaulted    \* history: the id ensure_model chose by default, while every
                 \* call since has found it reported

\* One call of generate_structured_stream, consumed by SchemaAgent.run_stream.
VARIABLES
    spc,         \* "idle", "open" while chunks arrive, "done", "raised"
    chunks,      \* the chunks received so far
    content,     \* the text accumulated by the client
    emissions,   \* what the client has yielded: (text, result) pairs
    passed,      \* what run_stream has yielded
    serr,        \* the exception that ended the stream ("" if none)
    sfail        \* what the message of that exception holds

\* One call of SchemaAgent.run or SchemaAgent.run_stream.
VARIABLES
    method,      \* "run" or "run_stream"
    sent,        \* the schema handed to the backend client
    outpath,     \* an output_path was given
    outfile      \* the text of the output file

\* One call of create_client.
VARIABLES
    fmode,       \* the backend argument: "lmstudio", "ollama" or "auto"
    fport,       \* the port argument
    fprobe,      \* the auto_probe argument
    serving,     \* the (variant, port) pairs whose preflight returns ok
    created      \* how the call ended, with the preflights it ran, in order

\* The pairing store of one PairingRepository, for one pairing name.
VARIABLES
    disk,        \* the directories under base_dir: absent, empty, or their files
    attempts,    \* the number of save calls made
    written,     \* the save calls that returned
    lastsave,    \* how the latest save call ended
    saved,       \* the names given to the save calls that returned
    listing      \* what the latest list_all yielded

\* One call of SchemaCreator.create.
VARIABLES
    cargs,       \* the name and force arguments, and the confirm callback
    cret         \* how the call ended

normVars == <<pc, schema, normalized, rename_map, same, expected, response, restored>>
clientVars == <<kind, model, configured, backend, chat, ret, defaulted>>
streamVars == <<spc, chunks, content, emissions, passed, serr, sfail>>
agentVars == <<method, sent, outpath, outfile>>
factoryVars == <<fmode, fport, fprobe, serving, created>>
repoVars == <<disk, attempts, written, lastsave, saved, listing>>
creatorVars == <<cargs, cret>>
sideVars == <<clientVars, streamVars, agentVars, factoryVars, repoVars, creatorVars>>

vars == <<normVars, sideVars>>

\* No model name: self.model is None or "".
NoModel == << >>

\* No request has been made.
NoReply == [k |-> "none"]

\* How a call ended: the exception that left it ("" if it returned) and what
\* it returned or reported.
Outcome(op) ==
    [op |-> op, exc |-> "", ok |-> FALSE, msg |-> "", id |-> NoModel,
     names |-> << >>, value |-> [t |-> "null"], preview |-> << >>]

\* No call has been made.
NoCall == Outcome("none")

NormIdle ==
    /\ pc = "idle"
    /\ schema = [t |-> "null"]
    /\ normalized = [t |-> "null"]
    /\ rename_map = << >>
    /\ same = FALSE
    /\ expected = [t |-> "null"]
    /\ response = [t |-> "null"]
    /\ restored = [t |-> "null"]

ClientIdle ==
    /\ kind = "none"
    /\ model = NoModel
    /\ configured = NoModel
    /\ backend = NoReply
    /\ chat = NoReply
    /\ ret = NoCall
    /\ defaulted = NoModel

\* What the message of an exception holds: its wording, whether it gives the
\* parse error, and the preview of the content it quotes.
Failure(msg, parse, preview) == [msg |-> msg, parse |-> parse, preview |-> preview]

\* No exception.
NoFailure == Failure("", FALSE, << >>)

StreamIdle ==
    /\ spc = "idle"
    /\ chunks = << >>
    /\ content = << >>
    /\ emissions = << >>
    /\ passed = << >>
    /\ serr = ""
    /\ sfail = NoFailure

\* Nothing was handed to a client.
NotSent == [t |-> "notsent"]

\* The output file does not exist.
NoFile == << >>

AgentIdle ==
    /\ method = "none"
    /\ sent = NotSent
    /\ outpath = FALSE
    /\ outfile = NoFile

\* port is None (or 0): the default port of the backend is used.
NoPort == 0

\* create_client has not been called.
NoClient ==
    [op |-> "none", exc |-> "", msg |-> "", variant |-> "", port |-> NoPort,
     log |-> << >>]

FactoryIdle ==
    /\ fmode = "none"
    /\ fport = NoPort
    /\ fprobe = FALSE
    /\ serving = {}
    /\ created = NoClient

\* save has not been called.
NoSave == [op |-> "none", exc |-> "", n |-> 0, t |-> 0]

\* list_all has not been called since the store last changed.
NoListing == [k |-> "none"]

RepoIdle ==
    /\ disk = << >>
    /\ attempts = 0
    /\ written = {}
    /\ lastsave = NoSave
    /\ saved = {}
    /\ listing = NoListing

\* create has not been called.
NoCreate ==
    [op |-> "none", exc |-> "", msg |-> "", value |-> [t |-> "null"],
     asked |-> FALSE]

CreatorIdle ==
    /\ cargs = << >>
    /\ cret = NoCreate

SideIdle ==
    ClientIdle /\ StreamIdle /\ AgentIdle /\ FactoryIdle /\ RepoIdle /\ CreatorIdle

\* Everything but the client.
outsideClient == <<normVars, streamVars, agentVars, factoryVars, repoVars, creatorVars>>

\* Everything but the call of create_client.
outsideFactory ==
    <<normVars, clientVars, streamVars, agentVars, repoVars, creatorVars>>

\* Everything but the pairing store.
outsideRepo ==
    <<normVars, clientVars, streamVars, agentVars, factoryVars, creatorVars>>

\* Everything but the stream, the class of the client, the rename map and
\* the output file.
outsideStream ==
    <<pc, schema, normalized, same, expected, response, restored,
      model, configured, backend, chat, ret, defaulted, method, sent, outpath,
      factoryVars, repoVars, creatorVars>>

Init ==
    /\ pc = "start"
    /\ schema \in Schemas
    /\ normalized = Null
    /\ rename_map = EmptyMap
    /\ same = FALSE
    /\ expected = Null
    /\ response = Null
    /\ restored = Null
    /\ SideIdle

\* normalized, rename_map = normalize_schema_for_backend(schema)
Normalize ==
    /\ pc = "start"
    /\ LET r == normalize_schema_for_backend(schema)
       IN /\ pc' = IF r.raised THEN "raised" ELSE "normalized"
          /\ normalized' = r.schema
          /\ rename_map' = r.rename_map
          /\ same' = r.same
          \* the writes of _norm and _fix_required land in `out`
          /\ schema' = IF r.same /\ ~r.raised THEN r.schema ELSE schema
    /\ UNCHANGED <<expected, response, restored>>
    /\ UNCHANGED sideVars

\* The backend answers the request made with the normalized schema.
Generate ==
    /\ pc = "normalized"
    /\ \E r0 \in Responses(schema) :
         /\ expected' = r0
         /\ response' = RenameKeys(r0)
    /\ pc' = "generated"
    /\ UNCHANGED <<schema, normalized, rename_map, same, restored>>
    /\ UNCHANGED sideVars

\* restored = restore_response_keys(response, rename_map)
Restore ==
    /\ pc = "generated"
    /\ restored' = restore_response_keys(response, rename_map)
    /\ pc' = "restored"
    /\ UNCHANGED <<schema, normalized, rename_map, same, expected, response>>
    /\ UNCHANGED sideVars

\* The caller updates the schema object it got back.
Edited(obj) ==
    IF IsDict(obj) THEN Put(obj, "title", Str("edited"))
    ELSE List(Append(obj.e, Str("edited")))

EditReturned ==
    /\ pc = "normalized"
    /\ IsDict(normalized) \/ IsList(normalized)
    /\ normalized' = Edited(normalized)
    /\ schema' = IF same THEN Edited(normalized) ELSE schema
    /\ pc' = "edited"
    /\ UNCHANGED <<rename_map, same, expected, response, restored>>
    /\ UNCHANGED sideVars

Next == Normalize \/ Generate \/ Restore \/ EditReturned

Spec == Init /\ [][Next]_vars

TypeOK ==
    pc \in {"idle", "start", "raised", "normalized", "generated", "restored", "edited",
            "streaming", "returned", "failed"}

(***************************************************************************)
(* Vocabulary of the properties                                            *)
(***************************************************************************)
\* normalize_schema_for_backend has returned and its results are untouched.
Returned == pc \in {"normalized", "generated", "restored"}

\* The name under which the normalizer keeps property k.
NormalizedName(k) == IF k \in _RESERVED_PROP_NAMES THEN NewName(k) ELSE k

SyntheticNames == {NewName(k) : k \in _RESERVED_PROP_NAMES}

Composites == {"anyOf", "oneOf", "allOf"}

\* The values one step below x through properties, items (object or
\* sequence form), anyOf/oneOf/allOf or $defs.
Children(x) ==
    LET props == Get(x, "properties")
        items == Get(x, "items")
        defs == Get(x, "$defs")
    IN (IF IsDict(props) THEN {props.kv[i][2] : i \in DOMAIN props.kv} ELSE {})
       \cup (IF IsDict(items) THEN {items}
             ELSE IF IsList(items) THEN {items.e[i] : i \in DOMAIN items.e}
             ELSE {})
       \cup UNION {IF IsList(Get(x, c)) THEN {Get(x, c).e[i] : i \in DOMAIN Get(x, c).e}
                   ELSE {} : c \in Composites}
       \cup (IF IsDict(defs) THEN {defs.kv[i][2] : i \in DOMAIN defs.kv} ELSE {})

\* The object nodes reachable from x, x included.
RECURSIVE Nodes(_)
Nodes(x) == IF ~IsDict(x) THEN {} ELSE {x} \cup UNION {Nodes(c) : c \in Children(x)}

\* The reachable object nodes of an input paired with the nodes at the same
\* place of the output (a property is looked up under its normalized name).
ChildPairs(i, o) ==
    LET pin == Get(i, "properties")
        pout == Get(o, "properties")
        iin == Get(i, "items")
        iout == Get(o, "items")
        din == Get(i, "$defs")
        dout == Get(o, "$defs")
    IN (IF IsDict(pin) /\ IsDict(pout)
        THEN {[in |-> pin.kv[n][2], out |-> Get(pout, NormalizedName(pin.kv[n][1]))]
              : n \in {m \in DOMAIN pin.kv : HasKey(pout, NormalizedName(pin.kv[m][1]))}}
        ELSE {})
       \cup (IF IsDict(iin) /\ IsDict(iout) THEN {[in |-> iin, out |-> iout]}
             ELSE IF IsList(iin) /\ IsList(iout)
                  THEN {[in |-> iin.e[n], out |-> iout.e[n]]
                        : n \in DOMAIN iin.e \cap DOMAIN iout.e}
             ELSE {})
       \cup UNION {IF IsList(Get(i, c)) /\ IsList(Get(o, c))
                   THEN {[in |-> Get(i, c).e[n], out |-> Get(o, c).e[n]]
                         : n \in DOMAIN Get(i, c).e \cap DOMAIN Get(o, c).e}
                   ELSE {} : c \in Composites}
       \cup (IF IsDict(din) /\ IsDict(dout)
             THEN {[in |-> din.kv[n][2], out |-> Get(dout, din.kv[n][1])]
                   : n \in {m \in DOMAIN din.kv : HasKey(dout, din.kv[m][1])}}
             ELSE {})

RECURSIVE NodePairs(_, _)
NodePairs(i, o) ==
    IF ~IsDict(i) \/ ~IsDict(o) THEN {}
    ELSE {[in |-> i, out |-> o]} \cup UNION {NodePairs(p.in, p.out) : p \in ChildPairs(i, o)}

\* Every key of every mapping inside a JSON value, at any depth.
RECURSIVE AllKeys(_)
AllKeys(x) ==
    IF IsDict(x) THEN KeySet(x) \cup UNION {AllKeys(x.kv[i][2]) : i \in DOMAIN x.kv}
    ELSE IF IsList(x) THEN UNION {AllKeys(x.e[i]) : i \in DOMAIN x.e}
    ELSE {}

\* The property names declared at the reachable object nodes of x.
PropertyKeys(x) ==
    UNION {IF IsDict(Get(n, "properties")) THEN KeySet(Get(n, "properties")) ELSE {}
           : n \in Nodes(x)}

(***************************************************************************)
(* C1.  Round trip: a response R0 to the caller's schema, its keys renamed *)
(* the way the normalizer renames properties and then restored with the    *)
(* returned rename map, is R0 again.                                       *)
(***************************************************************************)
C1_RoundTrip == pc = "restored" => restored = expected

(***************************************************************************)
(* C2.  The restored response holds no key of the synthetic form           *)
(* "_prop_" + reserved name at any depth, and every top-level field that   *)
(* the schema declared under a reserved name is there under that name.     *)
(***************************************************************************)
\* The reserved names the schema declares at its top level.
TopReserved ==
    IF IsDict(schema) /\ IsDict(Get(schema, "properties"))
    THEN KeySet(Get(schema, "properties")) \cap _RESERVED_PROP_NAMES
    ELSE {}

TopLevelRestored ==
    \A k \in TopReserved :
        IsDict(response) /\ HasKey(response, NewName(k))
            => /\ IsDict(restored)
               /\ HasKey(restored, k)
               /\ Get(restored, k) = restore_response_keys(Get(response, NewName(k)), rename_map)

Conforming == response \in Responses(normalized)

C2_NoSyntheticKey ==
    pc = "restored" /\ Conforming
        => AllKeys(restored) \cap SyntheticNames = {} /\ TopLevelRestored

\* C2 as amended: the restored response holds no key of the rename map,
\* i.e. no synthetic name that this normalization introduced, at any depth
\* (a key "_prop_" + reserved name that the schema itself declares and that
\* is not in the rename map is kept), and every top-level field declared
\* under a reserved name is there under that name.
C2_NoRenamedKey ==
    pc = "restored" /\ Conforming
        => AllKeys(restored) \cap DOMAIN rename_map = {} /\ TopLevelRestored

C2_Witness ==
    /\ pc = "restored"
    /\ Conforming
    /\ TopReserved # {}
    /\ AllKeys(response) \cap DOMAIN rename_map # {}
    /\ \E k \in KeySet(restored) : IsDict(Get(restored, k)) /\ "type" \in KeySet(Get(restored, k))

(***************************************************************************)
(* C3.  After normalization no object node reachable through properties,   *)
(* items, anyOf/oneOf/allOf or $defs has a property keyed by a reserved    *)
(* name.                                                                   *)
(***************************************************************************)
C3_NoReservedProperty ==
    Returned =>
        \A n \in Nodes(normalized) :
            IsDict(Get(n, "properties"))
                => KeySet(Get(n, "properties")) \cap _RESERVED_PROP_NAMES = {}

C3_Witness ==
    /\ Returned
    /\ IsDict(schema)
    /\ HasKey(schema, "$defs")
    /\ \E n \in Nodes(schema) \ {schema} :
         /\ IsDict(Get(n, "properties"))
         /\ "type" \in KeySet(Get(n, "properties"))
    /\ DOMAIN rename_map = {"_prop_type"}

(***************************************************************************)
(* C4.  After normalization, at every reachable object node and whatever   *)
(* the input shape of required was: a required key holds a list of         *)
(* strings, and the key is present whenever the node has a non-empty       *)
(* properties map.                                                         *)
(***************************************************************************)
C4_RequiredIsStringList ==
    Returned =>
        \A n \in Nodes(normalized) :
            /\ HasKey(n, "required") => IsStrList(Get(n, "required"))
            /\ IsDict(Get(n, "properties")) /\ Get(n, "properties").kv # << >>
                   => HasKey(n, "required")

(***************************************************************************)
(* C5.  At every reachable object node whose input required list named     *)
(* only properties declared at that node, every entry of the output        *)
(* required list is a key of the node's output properties map.             *)
(***************************************************************************)
\* The strings of a list of strings.
Names(req) == {req.e[i].s : i \in DOMAIN req.e}

RequiredDeclared(n) ==
    /\ IsDict(Get(n, "properties"))
    /\ IsStrList(Get(n, "required"))
    /\ Names(Get(n, "required")) \subseteq KeySet(Get(n, "properties"))

C5_RequiredNamesProperties ==
    Returned =>
        \A p \in NodePairs(schema, normalized) :
            RequiredDeclared(p.in) => RequiredDeclared(p.out)

(***************************************************************************)
(* C6.  For an object node with required = true, required is after         *)
(* normalization exactly the sequence of the node's property keys in       *)
(* their normalized form, in declaration order.                            *)
(***************************************************************************)
NormalizedKeyList(n) ==
    IF IsDict(Get(n, "properties"))
    THEN List([i \in DOMAIN Get(n, "properties").kv |->
                 Str(NormalizedName(Get(n, "properties").kv[i][1]))])
    ELSE List(<< >>)

C6_RequiredTrue ==
    Returned =>
        \A p \in NodePairs(schema, normalized) :
            Get(p.in, "required") = Bool(TRUE)
                => Get(p.out, "required") = NormalizedKeyList(p.in)

(***************************************************************************)
(* C8.  The rename map holds exactly the entries "_prop_" + k -> k for the *)
(* reserved names k that are property keys of a reachable node, and each   *)
(* such property is in the output under "_prop_" + k with the recursively  *)
(* normalized value schema of the original property.                       *)
(***************************************************************************)
C8_RenameMap ==
    Returned =>
        /\ DOMAIN rename_map = {NewName(k) : k \in PropertyKeys(schema) \cap _RESERVED_PROP_NAMES}
        /\ \A k \in PropertyKeys(schema) \cap _RESERVED_PROP_NAMES : rename_map[NewName(k)] = k
        /\ \A p \in NodePairs(schema, normalized) :
             IsDict(Get(p.in, "properties")) =>
                 \A i \in DOMAIN Get(p.in, "properties").kv :
                     LET k == Get(p.in, "properties").kv[i][1]
                         v == Get(p.in, "properties").kv[i][2]
                         pout == Get(p.out, "properties")
                     IN k \in _RESERVED_PROP_NAMES
                            => /\ IsDict(pout)
                               /\ HasKey(pout, NewName(k))
                               /\ Get(pout, NewName(k)) \in {_norm(v), _fix_required(_norm(v))}

(***************************************************************************)
(* C9.  For a schema in which no property key is a reserved name the       *)
(* rename map is empty and the returned schema is the input except for     *)
(* the coercion of required; a required list of strings is left unchanged. *)
(***************************************************************************)
\* A value without the required key of any of its mappings.
RECURSIVE StripRequired(_)
StripRequired(x) ==
    IF IsDict(x)
    THEN LET kept == SelectSeq(x.kv, LAMBDA e : e[1] # "required")
         IN Dict([i \in DOMAIN kept |-> <<kept[i][1], StripRequired(kept[i][2])>>])
    ELSE IF IsList(x) THEN List([i \in DOMAIN x.e |-> StripRequired(x.e[i])])
    ELSE x

C9_NoReservedIdentity ==
    Returned /\ PropertyKeys(schema) \cap _RESERVED_PROP_NAMES = {}
        => /\ rename_map = EmptyMap
           /\ StripRequired(normalized) = StripRequired(schema)
           /\ \A p \in NodePairs(schema, normalized) :
                IsStrList(Get(p.in, "required"))
                    => Get(p.out, "required") = Get(p.in, "required")

(***************************************************************************)
(* C10.  normalize_schema_for_backend completes without raising for every  *)
(* JSON value, malformed schemas included, and an empty or non-object      *)
(* input is returned unchanged with an empty rename map.                   *)
(***************************************************************************)
EmptyOrNonObject(x) == ~IsDict(x) \/ x.kv = << >>

C10_NeverRaises ==
    /\ pc # "raised"
    /\ Returned /\ EmptyOrNonObject(schema)
           => normalized = schema /\ rename_map = EmptyMap

(***************************************************************************)
(* C7.  normalize_schema_for_backend does not change its argument, and     *)
(* later changes to the returned schema do not change the input.           *)
(***************************************************************************)
C7_InputNeverChanges == [][schema' = schema]_vars

\* C7 as amended: the call does not change its argument at any nesting
\* level, and for a non-empty object schema later changes to the returned
\* schema do not change the input (an empty or non-object input is returned
\* as the same object, so changing the returned value changes the input).
C7_InputPreserved ==
    [][/\ pc = "start" => schema' = schema
       /\ pc = "normalized" /\ ~EmptyOrNonObject(schema) => schema' = schema]_vars

C7_Witness ==
    /\ pc = "edited"
    /\ ~EmptyOrNonObject(schema)
    /\ HasKey(normalized, "title")
    /\ ~HasKey(schema, "title")
    /\ Get(normalized, "properties") # Get(schema, "properties")

(***************************************************************************)
(* restore_response_keys on arbitrary values                               *)
(***************************************************************************)
Scalars == {Num(1), Str("x")}

\* Mappings of up to MaxProps keys with scalar values.
FlatObjects ==
    UNION {{Dict([i \in DOMAIN ks |-> <<ks[i], vs[i]>>]) :
              vs \in [DOMAIN ks -> Scalars]} : ks \in KeySeqs}

\* Scalars, mappings, sequences holding mappings, mappings holding mappings.
JsonValues ==
    Scalars \cup FlatObjects
      \cup {List(<<o, Num(1)>>) : o \in FlatObjects}
      \cup {List(<<Num(1), List(<<o>>)>>) : o \in FlatObjects}
      \cup {Dict(<< <<k, o>> >>) : k \in PropNames, o \in FlatObjects}

\* Rename maps: empty, one renamed key, two keys renamed to the same name.
RenameMaps ==
    {EmptyMap, MapOf({<<"_prop_type", "type">>}),
     MapOf({<<"_prop_type", "type">>, <<"a", "type">>})}

\* restore_response_keys is called with any value and any rename map.
InitRestore ==
    /\ pc = "generated"
    /\ response \in JsonValues
    /\ rename_map \in RenameMaps
    /\ schema = Null
    /\ normalized = Null
    /\ same = FALSE
    /\ expected = Null
    /\ restored = Null
    /\ SideIdle

SpecRestore == InitRestore /\ [][Restore]_vars

(***************************************************************************)
(* C11.  restore_response_keys(value, renameMap) equals the recursive key  *)
(* mapping: in every mapping at every depth a key present in renameMap is  *)
(* replaced by renameMap[key] and every other key is kept, the values are  *)
(* mapped recursively; sequences are mapped element by element, order and  *)
(* length kept; scalars are unchanged; with an empty renameMap the value   *)
(* is returned unchanged.                                                  *)
(***************************************************************************)
RECURSIVE KeyMapped(_, _)
\* The reference mapping {renameMap.get(k, k): KeyMapped(v) for k, v in value}:
\* one entry per mapped name, placed where the name first occurs and holding
\* the value of its last occurrence.
KeyMapped(value, map) ==
    IF IsDict(value) THEN
        LET name(i) == IF value.kv[i][1] \in DOMAIN map
                       THEN map[value.kv[i][1]] ELSE value.kv[i][1]
            firsts == SelectSeq([i \in DOMAIN value.kv |-> i],
                                LAMBDA i : \A j \in 1..(i - 1) : name(j) # name(i))
            last(i) == CHOOSE j \in DOMAIN value.kv :
                          /\ name(j) = name(i)
                          /\ \A l \in DOMAIN value.kv : name(l) = name(i) => l <= j
        IN Dict([n \in DOMAIN firsts |->
                   <<name(firsts[n]), KeyMapped(value.kv[last(firsts[n])][2], map)>>])
    ELSE IF IsList(value)
         THEN List([i \in DOMAIN value.e |-> KeyMapped(value.e[i], map)])
    ELSE value

C11_RestoreIsKeyMapping ==
    pc = "restored" =>
        /\ restored = KeyMapped(response, rename_map)
        /\ DOMAIN rename_map = {} => restored = response

\* A mapping inside a sequence with a renamed key and a kept key.
C11_Witness ==
    /\ pc = "restored"
    /\ IsList(response)
    /\ IsDict(response.e[1])
    /\ HasKey(response.e[1], "_prop_type")
    /\ HasKey(response.e[1], "a")
    /\ "a" \notin DOMAIN rename_map
    /\ IsDict(restored.e[1])
    /\ HasKey(restored.e[1], "type")
    /\ HasKey(restored.e[1], "a")
    /\ ~HasKey(restored.e[1], "_prop_type")

(***************************************************************************)
(* Text: a string is the sequence of its characters; the JSON texts are    *)
(* built from the tokens { } [ ] 1 null "a": "_prop_type": x and the       *)
(* space.                                                                  *)
(***************************************************************************)
\* str.lower on the letters used in model names
Lower(c) == IF c = "A" THEN "a" ELSE IF c = "B" THEN "b" ELSE c

LowerStr(s) == [i \in DOMAIN s |-> Lower(s[i])]

\* sub in s
Contains(sub, s) ==
    \E i \in 0..(Len(s) - Len(sub)) : SubSeq(s, i + 1, i + Len(sub)) = sub

\* s.startswith(pre)
StartsWith(s, pre) == Len(pre) <= Len(s) /\ SubSeq(s, 1, Len(pre)) = pre

\* s.split(":")[0]
SplitTag(s) ==
    LET colons == {i \in DOMAIN s : s[i] = ":"}
    IN IF colons = {} THEN s
       ELSE SubSeq(s, 1, (CHOOSE i \in colons : \A j \in colons : i <= j) - 1)

\* s.strip(), for the whitespace of the model: the space
RECURSIVE Strip(_)
Strip(s) ==
    IF s = << >> THEN s
    ELSE IF s[1] = " " THEN Strip(Tail(s))
    ELSE IF s[Len(s)] = " " THEN Strip(SubSeq(s, 1, Len(s) - 1))
    ELSE s

\* x in seq
InSeq(x, seq) == \E i \in DOMAIN seq : seq[i] = x

\* The first position at or after i that holds no space.
RECURSIVE SkipWs(_, _)
SkipWs(t, i) == IF i <= Len(t) /\ t[i] = " " THEN SkipWs(t, i + 1) ELSE i

\* The number written by the digits 1 from position i on.
RECURSIVE Digits(_, _, _)
Digits(t, i, n) ==
    IF i <= Len(t) /\ t[i] = "1" THEN Digits(t, i + 1, 10 * n + 1)
    ELSE [ok |-> TRUE, v |-> Num(n), next |-> i]

\* The tokens that write a key and its colon, and the key each one writes.
KeyTokens ==
    {"\"a\":", "\"_prop_type\":", "\"response_schema\":", "\"system_prompt\":"}

KeyOf(tok) ==
    CASE tok = "\"a\":" -> "a"
      [] tok = "\"_prop_type\":" -> "_prop_type"
      [] tok = "\"response_schema\":" -> "response_schema"
      [] OTHER -> "system_prompt"

ParseFailed == [ok |-> FALSE, v |-> Null, next |-> 0]

\* The JSON value that starts at position i of the text, spaces skipped.
RECURSIVE ParseValue(_, _)

\* The members of an object from the key at position m on, after the
\* members kv: a key written twice keeps its place and takes the later value.
RECURSIVE ParseMembers(_, _, _)
ParseMembers(t, m, kv) ==
    IF m > Len(t) \/ t[m] \notin KeyTokens THEN ParseFailed
    ELSE LET r == ParseValue(t, m + 1)
             n == SkipWs(t, r.next)
             more == PutKV(kv, KeyOf(t[m]), r.v)
         IN IF ~r.ok \/ n > Len(t) THEN ParseFailed
            ELSE IF t[n] = "}" THEN [ok |-> TRUE, v |-> Dict(more), next |-> n + 1]
            ELSE IF t[n] = "," THEN ParseMembers(t, SkipWs(t, n + 1), more)
            ELSE ParseFailed

ParseValue(t, i) ==
    LET j == SkipWs(t, i)
        closes(r, c) ==
            r.ok /\ SkipWs(t, r.next) <= Len(t) /\ t[SkipWs(t, r.next)] = c
    IN IF j > Len(t) THEN ParseFailed
       ELSE IF t[j] = "1" THEN Digits(t, j, 0)
       ELSE IF t[j] = "null" THEN [ok |-> TRUE, v |-> Null, next |-> j + 1]
       ELSE IF t[j] = "\"x\"" THEN [ok |-> TRUE, v |-> Str("x"), next |-> j + 1]
       ELSE IF t[j] = "{" THEN
           LET m == SkipWs(t, j + 1)
           IN IF m > Len(t) THEN ParseFailed
              ELSE IF t[m] = "}" THEN [ok |-> TRUE, v |-> Dict(<< >>), next |-> m + 1]
              ELSE ParseMembers(t, m, << >>)
       ELSE IF t[j] = "[" THEN
           LET m == SkipWs(t, j + 1)
           IN IF m > Len(t) THEN ParseFailed
              ELSE IF t[m] = "]" THEN [ok |-> TRUE, v |-> List(<< >>), next |-> m + 1]
              ELSE LET r == ParseValue(t, m)
                   IN IF closes(r, "]")
                      THEN [ok |-> TRUE, v |-> List(<<r.v>>),
                            next |-> SkipWs(t, r.next) + 1]
                      ELSE ParseFailed
       ELSE ParseFailed

\* json.loads(text): ok is false where it raises json.JSONDecodeError.
JsonLoads(t) ==
    LET r == ParseValue(t, 1)
    IN IF r.ok /\ SkipWs(t, r.next) > Len(t) THEN [ok |-> TRUE, v |-> r.v]
       ELSE [ok |-> FALSE, v |-> Null]

\* bool(text.strip())
StripTruthy(t) == \E i \in DOMAIN t : t[i] # " "

(***************************************************************************)
(* The backend as the clients meet it                                      *)
(***************************************************************************)
MaxIds == 2

\* Ids the backend may report.
Ids == {<<"A", "b">>, <<"a", "b", ":", "1">>, <<"a", "b", ":", "2">>, <<"b">>}

\* Model names the caller may configure.
Hints == {NoModel, <<"a", "b">>, <<"a", "b", ":", "1">>, <<"c">>}

\* An entry of the reported list: an object with an id (LM Studio "id",
\* Ollama "name" or "model"), an object without one, or not an object.
Entries == {[t |-> "model", id |-> i] : i \in Ids} \cup {[t |-> "noid"], [t |-> "nondict"]}

EntryLists == UNION {[1..n -> Entries] : n \in 0..MaxIds}

\* What the model-list request can meet: no connection, a timeout, an error
\* status, a body that is not JSON, a JSON body that is not an object, an
\* object without a list of models, a list of models.
Replies ==
    {[k |-> x] : x \in {"refused", "timeout", "status", "notjson", "notobject", "nolist"}}
      \cup {[k |-> "list", entries |-> l] : l \in EntryLists}

\* Response contents of the chat request.
Contents ==
    {<< >>, <<" ">>, <<"{", "}">>, <<"{", "\"a\":", "1", "}">>, <<"null">>,
     <<"[", "1", "]">>, <<"{">>, <<"x", " ">>,
     <<"{", "\"_prop_type\":", "[", "{", "\"_prop_type\":", "1", "}", "]", "}">>}

\* What the chat request can meet: as above, a response without choices or
\* message, one whose content is missing, one with content.
ChatReplies ==
    {[k |-> x] : x \in {"refused", "timeout", "status", "notjson", "notobject",
                        "nochoices", "nocontent"}}
      \cup {[k |-> "content", content |-> c] : c \in Contents}

\* The subclasses of requests.RequestException among the exceptions.
IsRequestException(exc) ==
    exc \in {"ConnectionError", "Timeout", "HTTPError", "RequestsJSONDecodeError"}

\* _get_models: the outcomes of the request, as (exception, models).  A body
\* that is not JSON raises requests' JSONDecodeError or a plain ValueError,
\* depending on the requests release installed.
_get_models(reply) ==
    IF reply.k = "refused" THEN {[exc |-> "ConnectionError", models |-> << >>]}
    ELSE IF reply.k = "timeout" THEN {[exc |-> "Timeout", models |-> << >>]}
    ELSE IF reply.k = "status" THEN {[exc |-> "HTTPError", models |-> << >>]}
    ELSE IF reply.k = "notjson"
         THEN {[exc |-> e, models |-> << >>] : e \in {"RequestsJSONDecodeError", "ValueError"}}
    ELSE IF reply.k = "notobject" THEN {[exc |-> "AttributeError", models |-> << >>]}
    ELSE IF reply.k = "nolist" THEN {[exc |-> "", models |-> << >>]}
    ELSE {[exc |-> "", models |-> reply.entries]}

(***************************************************************************)
(* preflight                                                               *)
(***************************************************************************)
\* A preflight that catches requests.RequestException only.
OnlyRequestException(exc) ==
    IF IsRequestException(exc)
    THEN [Outcome("preflight") EXCEPT !.msg = "Cannot connect"]
    ELSE [Outcome("preflight") EXCEPT !.exc = exc]

\* except requests.RequestException / except Exception
PreflightExcept(exc) ==
    IF IsRequestException(exc)
    THEN [Outcome("preflight") EXCEPT !.msg = "Cannot connect"]
    ELSE [Outcome("preflight") EXCEPT !.msg = "Error"]

\* preflight, given the outcome g of _get_models
preflight(g) ==
    IF g.exc # "" THEN PreflightExcept(g.exc)
    ELSE IF g.models = << >>
         THEN [Outcome("preflight") EXCEPT !.msg = "No models loaded"]
    ELSE IF \E i \in DOMAIN g.models : g.models[i].t = "nondict"
         THEN PreflightExcept("AttributeError")
    ELSE [Outcome("preflight") EXCEPT !.ok = TRUE, !.msg = "Connected"]

(***************************************************************************)
(* ensure_model                                                            *)
(***************************************************************************)
\* ids = [m.get("id") for m in models if isinstance(m, dict) and m.get("id")]
ModelIds(models) ==
    LET sel == SelectSeq(models, LAMBDA m : m.t = "model")
    IN [i \in DOMAIN sel |-> sel[i].id]

\* The lowercased text looked for in the ids: the configured name, for
\* Ollama its part before the first colon.
MatchKey(k, m) == IF k = "ollama" THEN LowerStr(SplitTag(m)) ELSE LowerStr(m)

\* A partial match that stops at the first id found.
FirstPartial(k, m, ids) ==
    LET all == SelectSeq(ids, LAMBDA mid : Contains(MatchKey(k, m), LowerStr(mid)))
    IN IF all = << >> THEN << >> ELSE <<all[1]>>

\* partial = [mid for mid in ids if <key> in mid.lower()]
partial(k, m, ids) ==
    SelectSeq(ids, LAMBDA mid :
        \/ Contains(MatchKey(k, m), LowerStr(mid))
        \/ k = "ollama" /\ StartsWith(LowerStr(mid), MatchKey(k, m)))

\* A default that takes the last id reported.
LastId(ids) == ids[Len(ids)]

\* self.model = ids[0]
DefaultId(ids) == ids[1]

\* ensure_model of a client of class k with self.model = m, given the
\* outcome g of _get_models: the exception or the id returned, self.model
\* after the call, the ids the error message names.
ensure_model(k, m, g) ==
    LET out == [Outcome("ensure_model") EXCEPT !.id = NoModel]
        ids == ModelIds(g.models)
        found(id) == [out EXCEPT !.id = id]
        failed(msg, names) ==
            [out EXCEPT !.exc = "RuntimeError", !.msg = msg, !.names = names]
    IN IF g.exc # "" THEN [r |-> [out EXCEPT !.exc = g.exc], model |-> m]
       \* Ollama's loop calls m.get on every entry
       ELSE IF k = "ollama" /\ \E i \in DOMAIN g.models : g.models[i].t = "nondict"
            THEN [r |-> [out EXCEPT !.exc = "AttributeError"], model |-> m]
       ELSE IF ids = << >> THEN [r |-> failed("No models loaded", << >>), model |-> m]
       ELSE IF m # NoModel THEN
           IF InSeq(m, ids) THEN [r |-> found(m), model |-> m]
           ELSE IF Len(partial(k, m, ids)) = 1
                THEN [r |-> found(partial(k, m, ids)[1]), model |-> partial(k, m, ids)[1]]
           ELSE [r |-> failed("not found", ids), model |-> m]
       ELSE [r |-> found(DefaultId(ids)), model |-> DefaultId(ids)]

(***************************************************************************)
(* generate_structured                                                     *)
(***************************************************************************)
PreviewLen == 500

\* raw = (content or "")[:500]
Preview(text) ==
    SubSeq(text, 1, IF Len(text) < PreviewLen THEN Len(text) ELSE PreviewLen)

\* return json.loads(content), or the RuntimeError raised for a
\* json.JSONDecodeError with the parse error and the preview in its message
ParsedContent(text) ==
    IF JsonLoads(text).ok
    THEN [Outcome("generate_structured") EXCEPT !.value = JsonLoads(text).v]
    ELSE [Outcome("generate_structured") EXCEPT
            !.exc = "RuntimeError", !.msg = "Invalid JSON returned",
            !.preview = Preview(text)]

\* The try block of generate_structured of a client of class k whose chat
\* request met c.  LM Studio turns every exception into RuntimeError; Ollama
\* catches json.JSONDecodeError and requests.RequestException only, and its
\* handler of JSONDecodeError reads `content`, which is unbound when
\* resp.json() raised; which of the three the error of resp.json() meets
\* depends on the requests release and on simplejson being installed.
ChatOutcomes(k, c) ==
    LET out == Outcome("generate_structured")
        runtime(msg) == [out EXCEPT !.exc = "RuntimeError", !.msg = msg]
    IN IF k = "lmstudio" THEN
           IF c.k = "content" THEN {ParsedContent(c.content)}
           ELSE {runtime("Inference error")}
       ELSE IF c.k \in {"refused", "timeout", "status"}
            THEN {runtime("Inference error")}
       ELSE IF c.k = "notjson"
            THEN {runtime("Inference error"), [out EXCEPT !.exc = "UnboundLocalError"],
                  [out EXCEPT !.exc = "ValueError"]}
       ELSE IF c.k = "notobject" THEN {[out EXCEPT !.exc = "AttributeError"]}
       ELSE IF c.k \in {"nochoices", "nocontent"} THEN {runtime("Empty response from model")}
       ELSE IF c.content = << >> THEN {runtime("Empty response from model")}
       ELSE {ParsedContent(c.content)}

\* generate_structured: ensure_model runs before the try block, so what it
\* raises leaves the call as it is; c is NoReply when no chat request is made.
generate_structured(k, m, g, c) ==
    LET e == ensure_model(k, m, g)
    IN IF e.r.exc # ""
       THEN IF c = NoReply
            THEN {[r |-> [e.r EXCEPT !.op = "generate_structured"], model |-> e.model]}
            ELSE {}
       ELSE IF c = NoReply THEN {}
       ELSE {[r |-> o, model |-> e.model] : o \in ChatOutcomes(k, c)}

(***************************************************************************)
(* The calls made on one client                                            *)
(***************************************************************************)
\* The id chosen by default, kept while the calls that resolve the model
\* find it reported.
Track(d, m, e, g) ==
    IF e.r.exc = "" /\ m = NoModel THEN e.r.id
    ELSE IF d # NoModel /\ g.exc = "" /\ InSeq(d, ModelIds(g.models)) THEN d
    ELSE NoModel

InitClient ==
    /\ NormIdle
    /\ kind \in {"lmstudio", "ollama"}
    /\ model \in Hints
    /\ configured = NoModel
    /\ backend = NoReply
    /\ chat = NoReply
    /\ ret = NoCall
    /\ defaulted = NoModel
    /\ StreamIdle
    /\ AgentIdle
    /\ FactoryIdle
    /\ RepoIdle
    /\ CreatorIdle

Preflight ==
    /\ ret = NoCall
    /\ \E reply \in Replies : \E g \in _get_models(reply) :
         /\ backend' = reply
         /\ ret' = preflight(g)
    /\ configured' = model
    /\ chat' = NoReply
    /\ UNCHANGED <<kind, model, defaulted>>
    /\ UNCHANGED outsideClient

EnsureModel ==
    /\ ret = NoCall
    /\ \E reply \in Replies : \E g \in _get_models(reply) :
         LET e == ensure_model(kind, model, g)
         IN /\ backend' = reply
            /\ ret' = e.r
            /\ model' = e.model
            /\ defaulted' = Track(defaulted, model, e, g)
    /\ configured' = model
    /\ chat' = NoReply
    /\ UNCHANGED kind
    /\ UNCHANGED outsideClient

GenerateStructured ==
    /\ ret = NoCall
    /\ \E reply \in Replies : \E g \in _get_models(reply) :
       \E c \in ChatReplies \cup {NoReply} :
       \E o \in generate_structured(kind, model, g, c) :
            /\ backend' = reply
            /\ chat' = c
            /\ ret' = o.r
            /\ model' = o.model
            /\ defaulted' = Track(defaulted, model, ensure_model(kind, model, g), g)
    /\ configured' = model
    /\ UNCHANGED kind
    /\ UNCHANGED outsideClient

\* The call has ended and its caller goes on; the client keeps self.model.
CallReturns ==
    /\ ret # NoCall
    /\ ret' = NoCall
    /\ configured' = NoModel
    /\ backend' = NoReply
    /\ chat' = NoReply
    /\ UNCHANGED <<kind, model, defaulted>>
    /\ UNCHANGED outsideClient

NextClient == Preflight \/ EnsureModel \/ GenerateStructured \/ CallReturns

SpecClient == InitClient /\ [][NextClient]_vars

(***************************************************************************)
(* Vocabulary of the properties of the clients                             *)
(***************************************************************************)
\* The positions of the reported list that hold a model with an id.
ModelPositions(reply) ==
    IF reply.k = "list"
    THEN {i \in DOMAIN reply.entries : reply.entries[i].t = "model"}
    ELSE {}

\* The backend answered with a list of objects.
WellFormed(reply) ==
    reply.k = "list" /\ \A i \in DOMAIN reply.entries : reply.entries[i].t # "nondict"

\* The available ids.
Reported(reply) == {reply.entries[i].id : i \in ModelPositions(reply)}

\* The id the backend reports first.
FirstReported(reply) ==
    reply.entries[CHOOSE i \in ModelPositions(reply) :
                     \A j \in ModelPositions(reply) : i <= j].id

\* The latest call returned this id.
ReturnsId(id) == ret.exc = "" /\ ret.id = id

\* The latest call failed with an error that names exactly these ids.
FailsNaming(ids) ==
    /\ ret.exc = "RuntimeError"
    /\ {ret.names[i] : i \in DOMAIN ret.names} = ids

(***************************************************************************)
(* C12.  For both clients, with a configured model m and a non-empty list  *)
(* of available ids, ensure_model returns m when m is an available id;     *)
(* otherwise the single available id that contains m as a                  *)
(* case-insensitive substring, when exactly one exists; otherwise it fails *)
(* with an error that names all available ids.  Every id returned is an    *)
(* available id.                                                           *)
(***************************************************************************)
C12_SubstringPolicy ==
    /\ ret.op = "ensure_model" /\ configured # NoModel
    /\ WellFormed(backend) /\ Reported(backend) # {}
    =>
        LET ids == Reported(backend)
            with == {id \in ids : Contains(LowerStr(configured), LowerStr(id))}
        IN /\ IF configured \in ids THEN ReturnsId(configured)
              ELSE IF Cardinality(with) = 1 THEN \E id \in with : ReturnsId(id)
              ELSE FailsNaming(ids)
           /\ ret.exc = "" => ret.id \in ids

\* C12 as amended: the match is counted over the entries of the reported
\* list, and the text looked for is m for LM Studio and the part of m before
\* its first colon for Ollama.
C12_EntryPolicy ==
    /\ ret.op = "ensure_model" /\ configured # NoModel
    /\ WellFormed(backend) /\ Reported(backend) # {}
    =>
        LET ids == Reported(backend)
            text == IF kind = "ollama" THEN SplitTag(configured) ELSE configured
            with == {i \in ModelPositions(backend) :
                        Contains(LowerStr(text), LowerStr(backend.entries[i].id))}
        IN /\ IF configured \in ids THEN ReturnsId(configured)
              ELSE IF Cardinality(with) = 1
                   THEN \E i \in with : ReturnsId(backend.entries[i].id)
              ELSE FailsNaming(ids)
           /\ ret.exc = "" => ret.id \in ids

\* Ollama resolves a name with a tag to the one id of the same family.
C12_Witness ==
    /\ ret.op = "ensure_model"
    /\ kind = "ollama"
    /\ configured = <<"a", "b", ":", "1">>
    /\ ReturnsId(<<"a", "b", ":", "2">>)
    /\ model = <<"a", "b", ":", "2">>
    /\ Cardinality(ModelPositions(backend)) = 1

(***************************************************************************)
(* C13.  With no model configured and at least one id reported,            *)
(* ensure_model returns the id reported first and stores it on the client; *)
(* every later ensure_model call returns that id as long as the backend    *)
(* still reports it, whatever the order and whatever new ids appear.  The  *)
(* backend reports its models as a list of objects.                        *)
(***************************************************************************)
C13_DefaultIsKept ==
    ret.op = "ensure_model" =>
        /\ configured = NoModel /\ WellFormed(backend) /\ Reported(backend) # {}
               => ReturnsId(FirstReported(backend)) /\ model = FirstReported(backend)
        /\ configured # NoModel /\ defaulted # NoModel /\ WellFormed(backend)
               => ReturnsId(defaulted) /\ model = defaulted

\* A later call finds the default id reported after a new first id.
C13_Witness ==
    /\ ret.op = "ensure_model"
    /\ configured # NoModel
    /\ defaulted # NoModel
    /\ Cardinality(ModelPositions(backend)) = 2
    /\ FirstReported(backend) # defaulted
    /\ ReturnsId(defaulted)

(***************************************************************************)
(* C14.  preflight never raises: whatever the model-list request meets     *)
(* (no connection, timeout, error status, malformed body, empty list) it   *)
(* returns (ok, message), and ok is true only if the backend was reached   *)
(* and reported at least one model.                                        *)
(***************************************************************************)
C14_PreflightNeverRaises ==
    ret.op = "preflight" =>
        /\ ret.exc = ""
        /\ ret.msg # ""
        /\ ret.ok => backend.k = "list" /\ Len(backend.entries) >= 1

\* A body that is JSON but not an object is reported, not raised.
C14_Witness ==
    /\ ret.op = "preflight"
    /\ backend.k = "notobject"
    /\ ret.exc = ""
    /\ ~ret.ok

(***************************************************************************)
(* C15.  generate_structured never returns a value when the response       *)
(* content is missing, empty or not valid JSON: it raises RuntimeError,    *)
(* for invalid JSON with the parse failure and a preview of at most 500    *)
(* characters in the message.  Every failure of the call, a failure while  *)
(* resolving the model included, reaches the caller as RuntimeError.       *)
(***************************************************************************)
C15_FailuresAreRuntimeError ==
    ret.op = "generate_structured" =>
        /\ \/ chat.k \in {"nochoices", "nocontent"}
           \/ chat.k = "content" /\ ~JsonLoads(chat.content).ok
             => ret.exc = "RuntimeError"
        /\ chat.k = "content" /\ chat.content # << >> /\ ~JsonLoads(chat.content).ok
             => /\ ret.msg = "Invalid JSON returned"
                /\ Len(ret.preview) <= 500
                /\ ret.preview = SubSeq(chat.content, 1, Len(ret.preview))
        /\ ret.exc # "" => ret.exc = "RuntimeError"

(***************************************************************************)
(* json.dumps(result, indent=2, ensure_ascii=False)                        *)
(***************************************************************************)
\* The decimal digits of a natural number.
RECURSIVE DigitsOf(_)
DigitsOf(n) == IF n < 10 THEN <<ToString(n)>> ELSE DigitsOf(n \div 10) \o <<ToString(n % 10)>>

\* A line break and the indentation of nesting depth d.
NewLine(d) == <<"\n">> \o [i \in 1..(2 * d) |-> " "]

\* The text of value x at nesting depth d; the members of a mapping and the
\* entries of a list each get a line of their own.
RECURSIVE DumpsAt(_, _)
RECURSIVE DumpMembers(_, _, _)
DumpMembers(x, n, d) ==
    IF n = 0 THEN << >>
    ELSE DumpMembers(x, n - 1, d)
           \o (IF n > 1 THEN <<",">> ELSE << >>)
           \o NewLine(d + 1)
           \o (IF IsDict(x)
               THEN <<"\"" \o x.kv[n][1] \o "\":", " ">> \o DumpsAt(x.kv[n][2], d + 1)
               ELSE DumpsAt(x.e[n], d + 1))

DumpsAt(x, d) ==
    CASE x.t = "null" -> <<"null">>
      [] x.t = "bool" -> IF x.b THEN <<"true">> ELSE <<"false">>
      [] x.t = "num" -> DigitsOf(x.n)
      [] x.t = "str" -> <<"\"" \o x.s \o "\"">>
      [] x.t = "dict" ->
            IF x.kv = << >> THEN <<"{", "}">>
            ELSE <<"{">> \o DumpMembers(x, Len(x.kv), d) \o NewLine(d) \o <<"}">>
      [] x.t = "list" ->
            IF x.e = << >> THEN <<"[", "]">>
            ELSE <<"[">> \o DumpMembers(x, Len(x.e), d) \o NewLine(d) \o <<"]">>

json_dumps(x) == DumpsAt(x, 0)

(***************************************************************************)
(* generate_structured_stream and SchemaAgent.run_stream                   *)
(***************************************************************************)
MaxChunks == 3

\* The content a chunk may carry.
Parts ==
    {<< >>, <<" ">>, <<"{">>, <<"}">>, <<"null">>, <<"\"a\":", "1">>,
     <<"\"_prop_type\":", "1">>}

\* What the stream may deliver to a client of class k: LM Studio chunks with
\* a delta or without choices; Ollama lines that are blank, not JSON, or an
\* object with a message part and a done flag.
Chunks(k) ==
    IF k = "lmstudio"
    THEN {[k |-> "data", part |-> p, done |-> FALSE] : p \in Parts} \cup {[k |-> "nochoices"]}
    ELSE {[k |-> "data", part |-> p, done |-> d] : p \in Parts, d \in BOOLEAN}
           \cup {[k |-> "blank"], [k |-> "garbage"]}

\* A chunk whose content is dropped.
NoDelta(c) == << >>

\* delta = (chunk.choices[0].delta.content or "") if chunk.choices else ""
Delta(c) == IF c.k = "data" THEN c.part ELSE << >>

\* yield content, None
Partial(text) == [text |-> text, result |-> Null]

\* result = json.loads(content) if content.strip() else {}; yield content, result
\* json.JSONDecodeError becomes RuntimeError in LMStudioClient (except
\* Exception) and leaves OllamaClient as it is (except RequestException).
\* The message of the RuntimeError is "Inference error: " and the parse
\* error; that of the JSONDecodeError is the parse error.
Terminal(k, text) ==
    IF ~StripTruthy(text)
    THEN [exc |-> "", fail |-> NoFailure, e |-> [text |-> text, result |-> Dict(<< >>)]]
    ELSE IF JsonLoads(text).ok
         THEN [exc |-> "", fail |-> NoFailure,
               e |-> [text |-> text, result |-> JsonLoads(text).v]]
    ELSE IF k = "lmstudio"
         THEN [exc |-> "RuntimeError", fail |-> Failure("Inference error", TRUE, << >>),
               e |-> Partial(text)]
    ELSE [exc |-> "JSONDecodeError", fail |-> Failure("", TRUE, << >>), e |-> Partial(text)]

\* A run_stream that tests the result for truth.
PassTruthy(e, map) ==
    IF Truthy(e.result)
    THEN [text |-> e.text, result |-> restore_response_keys(e.result, map)]
    ELSE [text |-> e.text, result |-> Null]

\* A run_stream that yields what the client yields.
PassUnrestored(e, map) == e

\* run_stream: if result is not None: restore and yield; else yield content, None
AgentPass(e, map) ==
    IF e.result # Null
    THEN [text |-> e.text, result |-> restore_response_keys(e.result, map)]
    ELSE [text |-> e.text, result |-> Null]

InitStream ==
    /\ pc = "idle"
    /\ schema = Null
    /\ normalized = Null
    /\ rename_map \in RenameMaps
    /\ same = FALSE
    /\ expected = Null
    /\ response = Null
    /\ restored = Null
    /\ kind \in {"lmstudio", "ollama"}
    /\ model = NoModel
    /\ configured = NoModel
    /\ backend = NoReply
    /\ chat = NoReply
    /\ ret = NoCall
    /\ defaulted = NoModel
    /\ spc = "open"
    /\ chunks = << >>
    /\ content = << >>
    /\ emissions = << >>
    /\ passed = << >>
    /\ serr = ""
    /\ sfail = NoFailure
    /\ method = "run_stream"
    /\ sent = normalized
    /\ outpath = FALSE
    /\ outfile = NoFile
    /\ FactoryIdle
    /\ RepoIdle
    /\ CreatorIdle

\* if output_path: Path(output_path).write_text(json.dumps(result, ...))
\* for the emission e that run_stream is about to yield.
WriteOutput(e) == IF e.result # Null /\ outpath THEN json_dumps(e.result) ELSE outfile

\* The terminal emission for the accumulated text, or the exception of its
\* parse; run_stream restores the result, writes the output file and yields.
Finish(text) ==
    LET t == Terminal(kind, text)
    IN IF t.exc # ""
       THEN /\ spc' = "raised"
            /\ serr' = t.exc
            /\ sfail' = t.fail
            /\ UNCHANGED <<emissions, passed, outfile>>
       ELSE /\ spc' = "done"
            /\ emissions' = Append(emissions, t.e)
            /\ passed' = Append(passed, AgentPass(t.e, rename_map))
            /\ outfile' = WriteOutput(AgentPass(t.e, rename_map))
            /\ UNCHANGED <<serr, sfail>>

\* One turn of the loop over the chunks of the stream.
ReceiveChunk ==
    /\ spc = "open"
    /\ Len(chunks) < MaxChunks
    /\ \E c \in Chunks(kind) :
         /\ chunks' = Append(chunks, c)
         /\ IF c.k \in {"blank", "garbage"}
            THEN UNCHANGED <<spc, content, emissions, passed, serr, sfail, outfile>>
            ELSE /\ content' = content \o Delta(c)
                 /\ IF c.k = "data" /\ c.done
                    THEN Finish(content \o Delta(c))
                    ELSE /\ emissions' = Append(emissions, Partial(content \o Delta(c)))
                         /\ passed' = Append(passed,
                                AgentPass(Partial(content \o Delta(c)), rename_map))
                         /\ outfile' =
                                WriteOutput(AgentPass(Partial(content \o Delta(c)), rename_map))
                         /\ UNCHANGED <<spc, serr, sfail>>
    /\ UNCHANGED <<kind, rename_map>>
    /\ UNCHANGED outsideStream

\* The stream is exhausted.
StreamEnds ==
    /\ spc = "open"
    /\ Finish(content)
    /\ UNCHANGED <<chunks, content, kind, rename_map>>
    /\ UNCHANGED outsideStream

NextStream == ReceiveChunk \/ StreamEnds

SpecStream == InitStream /\ [][NextStream]_vars

(***************************************************************************)
(* Vocabulary of the properties of the stream                              *)
(***************************************************************************)
\* The content of all the chunks, concatenated.
RECURSIVE AllContent(_)
AllContent(cs) ==
    IF cs = << >> THEN << >>
    ELSE AllContent(SubSeq(cs, 1, Len(cs) - 1))
           \o (IF cs[Len(cs)].k = "data" THEN cs[Len(cs)].part ELSE << >>)

\* The last of the emissions.
Last(es) == es[Len(es)]

(***************************************************************************)
(* C16.  For every finite chunk sequence whose concatenated content is     *)
(* valid JSON, generate_structured_stream produces exactly one emission    *)
(* with a parsed result that is not absent: it is the last one, its text   *)
(* is the concatenation of the content of all chunks received, its result  *)
(* is the JSON parse of that text, and every earlier emission has an       *)
(* absent result.                                                          *)
(***************************************************************************)
C16_OneTerminalEmission ==
    spc \in {"done", "raised"} /\ JsonLoads(AllContent(chunks)).ok =>
        /\ spc = "done"
        /\ emissions # << >>
        /\ Last(emissions).result # Null
        /\ Last(emissions).text = AllContent(chunks)
        /\ Last(emissions).result = JsonLoads(AllContent(chunks)).v
        /\ \A i \in 1..(Len(emissions) - 1) : emissions[i].result = Null

(***************************************************************************)
(* C17.  If the accumulated text is empty or whitespace when the stream    *)
(* ends, the terminal emission of both clients carries the empty object    *)
(* and no error is raised, and SchemaAgent.run_stream passes it on as the  *)
(* final result {}.                                                        *)
(***************************************************************************)
C17_BlankGivesEmptyObject ==
    spc \in {"done", "raised"} /\ ~StripTruthy(content) =>
        /\ spc = "done"
        /\ serr = ""
        /\ Last(emissions) = [text |-> content, result |-> Dict(<< >>)]
        /\ Last(passed) = [text |-> content, result |-> Dict(<< >>)]
        /\ \A i \in 1..(Len(passed) - 1) : passed[i].result = Null

\* A stream of one blank line and one space, ended by Ollama's done flag,
\* under a rename map that is not empty.
C17_Witness ==
    /\ spc = "done"
    /\ kind = "ollama"
    /\ content = <<" ">>
    /\ Len(chunks) = 2
    /\ chunks[2].k = "data" /\ chunks[2].done
    /\ DOMAIN rename_map # {}
    /\ Last(passed).result = Dict(<< >>)

(***************************************************************************)
(* create_client                                                           *)
(***************************************************************************)
DEFAULT_PORT == 1234

COMMON_PORTS == <<1234, 4321, 8080>>

OLLAMA_DEFAULT_PORT == 11434

\* The ports the caller may pass.
PortArgs == {NoPort, 1234, 8080, 9999}

\* The servers create_client can reach with these arguments.
Endpoints ==
    {<<"lmstudio", p>> : p \in {1234, 4321, 8080, 9999}}
      \cup {<<"ollama", p>> : p \in {11434, 1234, 8080, 9999}}

\* port or <default>
PortOr(port, default) == IF port = NoPort THEN default ELSE port

\* A client of variant v for port p is constructed and its preflight is run.
Contact(v, p, up) == [variant |-> v, port |-> p, ok |-> <<v, p>> \in up]

\* return client
ClientFor(c, log) ==
    [op |-> "create_client", exc |-> "", msg |-> "", variant |-> c.variant,
     port |-> c.port, log |-> log]

\* raise RuntimeError(msg)
Refused(msg, log) ==
    [op |-> "create_client", exc |-> "RuntimeError", msg |-> msg, variant |-> "",
     port |-> NoPort, log |-> log]

RECURSIVE ProbeUnchecked(_, _, _, _)
\* A probe that returns the first candidate without looking at its preflight.
ProbeUnchecked(i, port, up, log) ==
    IF i > Len(COMMON_PORTS)
    THEN Refused("Connection failed on all common ports (LM Studio)", log)
    ELSE IF COMMON_PORTS[i] = port THEN ProbeUnchecked(i + 1, port, up, log)
    ELSE ClientFor(Contact("lmstudio", COMMON_PORTS[i], up),
                   Append(log, Contact("lmstudio", COMMON_PORTS[i], up)))

RECURSIVE ProbeEvery(_, _, _, _)
\* A probe that tries the requested port again.
ProbeEvery(i, port, up, log) ==
    IF i > Len(COMMON_PORTS)
    THEN Refused("Connection failed on all common ports (LM Studio)", log)
    ELSE LET c == Contact("lmstudio", COMMON_PORTS[i], up)
         IN IF c.ok THEN ClientFor(c, Append(log, c))
            ELSE ProbeEvery(i + 1, port, up, Append(log, c))

RECURSIVE Probe(_, _, _, _)
\* for p in COMMON_PORTS, from its i-th element on
Probe(i, port, up, log) ==
    IF i > Len(COMMON_PORTS)
    THEN Refused("Connection failed on all common ports (LM Studio)", log)
    ELSE IF COMMON_PORTS[i] = port THEN Probe(i + 1, port, up, log)
    ELSE LET c == Contact("lmstudio", COMMON_PORTS[i], up)
         IN IF c.ok THEN ClientFor(c, Append(log, c))
            ELSE Probe(i + 1, port, up, Append(log, c))

_create_lmstudio_client(port, auto_probe, up) ==
    LET c == Contact("lmstudio", port, up)
    IN IF c.ok THEN ClientFor(c, <<c>>)
       ELSE IF ~auto_probe THEN Refused("Cannot connect to LM Studio", <<c>>)
       ELSE Probe(1, port, up, <<c>>)

_create_ollama_client(port, up) ==
    LET c == Contact("ollama", port, up)
    IN IF c.ok THEN ClientFor(c, <<c>>)
       ELSE Refused("Cannot connect to Ollama", <<c>>)

\* An auto mode that tries Ollama first.
OllamaFirst(port, auto_probe, up) ==
    LET b == _create_ollama_client(PortOr(port, OLLAMA_DEFAULT_PORT), up)
        a == _create_lmstudio_client(PortOr(port, DEFAULT_PORT), auto_probe, up)
    IN IF b.exc = "RuntimeError" THEN [a EXCEPT !.log = b.log \o a.log] ELSE b

\* try: return _create_lmstudio_client(...)
\* except RuntimeError: return _create_ollama_client(...)
Auto(port, auto_probe, up) ==
    LET a == _create_lmstudio_client(PortOr(port, DEFAULT_PORT), auto_probe, up)
        b == _create_ollama_client(PortOr(port, OLLAMA_DEFAULT_PORT), up)
    IN IF a.exc = "RuntimeError" THEN [b EXCEPT !.log = a.log \o b.log] ELSE a

create_client(port, auto_probe, mode, up) ==
    IF mode = "ollama" THEN _create_ollama_client(PortOr(port, OLLAMA_DEFAULT_PORT), up)
    ELSE IF mode = "lmstudio"
         THEN _create_lmstudio_client(PortOr(port, DEFAULT_PORT), auto_probe, up)
    ELSE Auto(port, auto_probe, up)

InitFactory ==
    /\ NormIdle
    /\ ClientIdle
    /\ StreamIdle
    /\ AgentIdle
    /\ fmode \in {"lmstudio", "ollama", "auto"}
    /\ fport \in PortArgs
    /\ fprobe \in BOOLEAN
    /\ serving \in SUBSET Endpoints
    /\ created = NoClient
    /\ RepoIdle
    /\ CreatorIdle

CreateClient ==
    /\ created = NoClient
    /\ created' = create_client(fport, fprobe, fmode, serving)
    /\ UNCHANGED <<fmode, fport, fprobe, serving>>
    /\ UNCHANGED outsideFactory

SpecFactory == InitFactory /\ [][CreateClient]_vars

(***************************************************************************)
(* Vocabulary of the properties of create_client                           *)
(***************************************************************************)
\* create_client has ended.
Created == created.op = "create_client"

\* The preflights create_client ran, in order.
Contacts == created.log

\* No preflight passed.
AllFailed == \A i \in DOMAIN Contacts : ~Contacts[i].ok

(***************************************************************************)
(* C18.  In 'auto' mode create_client runs the LM Studio preflight first   *)
(* and returns that client if it passes; Ollama is contacted only after    *)
(* LM Studio has failed; if both fail the error raised is Ollama's.        *)
(***************************************************************************)
C18_LMStudioThenOllama ==
    Created /\ fmode = "auto" =>
        /\ Contacts # << >>
        /\ Contacts[1] = Contact("lmstudio", PortOr(fport, DEFAULT_PORT), serving)
        /\ Contacts[1].ok =>
               /\ Len(Contacts) = 1
               /\ created.exc = ""
               /\ created.variant = "lmstudio"
               /\ created.port = PortOr(fport, DEFAULT_PORT)
        /\ \A i \in DOMAIN Contacts :
               Contacts[i].variant = "ollama" =>
                   \A j \in 1..(i - 1) :
                       Contacts[j].variant = "lmstudio" /\ ~Contacts[j].ok
        /\ AllFailed =>
               /\ created.exc = "RuntimeError"
               /\ created.msg = "Cannot connect to Ollama"
               /\ Contacts[Len(Contacts)].variant = "ollama"

\* Both variants fail after LM Studio probed every common port.
C18_Witness ==
    /\ Created
    /\ fmode = "auto"
    /\ fprobe
    /\ Len(Contacts) = 4
    /\ AllFailed
    /\ created.msg = "Cannot connect to Ollama"

(***************************************************************************)
(* C19.  create_client returns exactly one client, and only a client whose *)
(* own preflight (same variant and port) returned ok; in an explicit mode  *)
(* a failed preflight makes create_client raise RuntimeError and the other *)
(* variant is never contacted.                                             *)
(***************************************************************************)
OwnPreflightPassed ==
    created.exc = "" =>
        /\ created.variant \in {"lmstudio", "ollama"}
        /\ \E i \in DOMAIN Contacts :
               Contacts[i] = [variant |-> created.variant, port |-> created.port, ok |-> TRUE]
        /\ <<created.variant, created.port>> \in serving

OtherVariantUntouched ==
    fmode \in {"lmstudio", "ollama"} =>
        \A i \in DOMAIN Contacts : Contacts[i].variant = fmode

C19_FailedPreflightRaises ==
    Created =>
        /\ OwnPreflightPassed
        /\ OtherVariantUntouched
        /\ fmode \in {"lmstudio", "ollama"} /\ ~Contacts[1].ok
               => created.exc = "RuntimeError"

\* C19 as amended: in an explicit mode create_client raises RuntimeError when
\* every preflight it ran has failed; that is the preflight on the requested
\* port alone, except for 'lmstudio' with auto_probe, where the other common
\* ports are tried in order and the first that passes gives the client.
C19_FailedPreflightsRaise ==
    Created =>
        /\ OwnPreflightPassed
        /\ OtherVariantUntouched
        /\ fmode \in {"lmstudio", "ollama"} /\ AllFailed => created.exc = "RuntimeError"
        /\ fmode \in {"lmstudio", "ollama"} /\ ~(fmode = "lmstudio" /\ fprobe)
               => Len(Contacts) = 1
        /\ created.exc = "" => Contacts[Len(Contacts)].ok /\ ~AllFailed

\* The requested port fails and the probe finds LM Studio on another port.
C19_Witness ==
    /\ Created
    /\ fmode = "lmstudio"
    /\ fprobe
    /\ ~Contacts[1].ok
    /\ created.exc = ""
    /\ created.port # PortOr(fport, DEFAULT_PORT)
    /\ <<"lmstudio", created.port>> \in serving
    /\ Len(Contacts) = 3

(***************************************************************************)
(* PairingRepository.save                                                  *)
(***************************************************************************)
MaxSaves == 4

MaxTime == 3

\* The values of datetime.now(), to the second.
Times == 1..MaxTime

\* The characters of a name that match \w; the word "backup" is written as
\* one of them.
WordChars == {"a", "A", "p", "_", "backup"}

\* The characters that match [-\s].
Separators == {"-", " "}

\* s without the separators it starts with.
RECURSIVE DropSeparators(_)
DropSeparators(s) ==
    IF s # << >> /\ s[1] \in Separators THEN DropSeparators(Tail(s)) ELSE s

\* re.sub(r"[-\s]+", "_", s)
RECURSIVE Collapse(_)
Collapse(s) ==
    IF s = << >> THEN s
    ELSE IF s[1] \in Separators THEN <<"_">> \o Collapse(DropSeparators(s))
    ELSE <<s[1]>> \o Collapse(Tail(s))

\* sanitize_filename(name)
sanitize_filename(name) ==
    LET kept == SelectSeq(name, LAMBDA c : c \in WordChars \cup Separators)
        safe == Collapse(LowerStr(Strip(kept)))
    IN IF safe = << >> THEN <<"untitled">> ELSE safe

\* self.path(name): the directory of the pairing, by its name under base_dir.
path(name) == sanitize_filename(name)

\* The pairing name of the store of one pairing; it is its own directory name.
Target == <<"p">>

\* f"{target.name}_backup_{timestamp}"
BackupOf(target, t) == target \o <<"_", "backup", "_", ToString(t)>>

BackupName(t) == BackupOf(Target, t)

Dirs == {Target} \cup {BackupName(t) : t \in Times}

Absent == [k |-> "absent"]

EmptyDir == [k |-> "empty"]

\* schema.json, prompt.txt and meta.json as written by the n-th save call.
Files(n) == [k |-> "files", schema |-> n, prompt |-> n, meta |-> n]

\* target.exists() and any(target.iterdir())
NonEmpty(d) == d.k = "files"

\* A rename that replaces whatever is at its destination.
RenameOver(fs, src, dst) ==
    {[exc |-> "", fs |-> [fs EXCEPT ![dst] = fs[src], ![src] = Absent]]}

\* target.rename(backup_dir): onto a directory that is not empty it raises
\* OSError; onto an empty directory it replaces it (POSIX) or raises
\* FileExistsError (Windows).
Rename(fs, src, dst) ==
    LET moved == [exc |-> "", fs |-> [fs EXCEPT ![dst] = fs[src], ![src] = Absent]]
    IN IF fs[dst] = Absent THEN {moved}
       ELSE IF fs[dst] = EmptyDir THEN {moved, [exc |-> "OSError", fs |-> fs]}
       ELSE {[exc |-> "OSError", fs |-> fs]}

\* save(name, schema, prompt) as the n-th call, at time t: the outcomes.
save_named(fs, name, n, t) ==
    LET target == path(name)
        write(f) == [f EXCEPT ![target] = Files(n)]
    IN IF NonEmpty(fs[target])
       THEN {[exc |-> r.exc, fs |-> IF r.exc = "" THEN write(r.fs) ELSE r.fs] :
               r \in Rename(fs, target, BackupOf(target, t))}
       ELSE {[exc |-> "", fs |-> write(fs)]}

\* save(Target, schema, prompt)
save(fs, n, t) == save_named(fs, Target, n, t)

\* The store before the first save: directories absent or empty.
InitRepo ==
    /\ NormIdle
    /\ ClientIdle
    /\ StreamIdle
    /\ AgentIdle
    /\ FactoryIdle
    /\ CreatorIdle
    /\ disk \in [Dirs -> {Absent, EmptyDir}]
    /\ attempts = 0
    /\ written = {}
    /\ lastsave = NoSave
    /\ saved = {}
    /\ listing = NoListing

Save ==
    /\ attempts < MaxSaves
    /\ \E t \in Times : \E r \in save(disk, attempts + 1, t) :
         /\ disk' = r.fs
         /\ lastsave' = [op |-> "save", exc |-> r.exc, n |-> attempts + 1, t |-> t]
         /\ written' = IF r.exc = "" THEN written \cup {attempts + 1} ELSE written
         /\ saved' = IF r.exc = "" THEN saved \cup {Target} ELSE saved
    /\ attempts' = attempts + 1
    /\ listing' = NoListing
    /\ UNCHANGED outsideRepo

SpecRepo == InitRepo /\ [][Save]_vars

(***************************************************************************)
(* C20.  PairingRepository.save never silently overwrites a non-empty      *)
(* pairing: a target directory that exists and is not empty is first       *)
(* renamed to <name>_backup_<timestamp> and the new files are written into *)
(* a fresh directory; after any sequence of saves to the same name the     *)
(* schema and prompt written by every earlier save still exist on disk     *)
(* unchanged, in the target or in a backup directory, also when two saves  *)
(* get the same timestamp.                                                 *)
(***************************************************************************)
C20_NeverOverwrites ==
    [][/\ lastsave'.exc = "" /\ NonEmpty(disk[Target])
            => /\ disk'[BackupName(lastsave'.t)] = disk[Target]
               /\ disk'[Target] = Files(lastsave'.n)
       /\ \A n \in written' :
            \E d \in Dirs : /\ NonEmpty(disk'[d])
                            /\ disk'[d].schema = n
                            /\ disk'[d].prompt = n
       /\ \A d \in Dirs : NonEmpty(disk[d]) /\ disk'[d] # disk[d]
            => \E b \in Dirs : b # d /\ disk'[b] = disk[d]]_vars

\* A third save at the timestamp of the second: it fails, and the files of
\* the first two saves are in the backup and in the target.
C20_Witness ==
    /\ lastsave.op = "save"
    /\ lastsave.exc = "OSError"
    /\ written = {1, 2}
    /\ disk[BackupName(lastsave.t)] = Files(1)
    /\ disk[Target] = Files(2)

(***************************************************************************)
(* C22.  The coercion of required at each object node, by the shape of the *)
(* input value: false gives []; a mapping gives the names whose value is   *)
(* truthy, in mapping order; a number, a string or a list with an entry    *)
(* that is not a string gives all property keys of the node when it has    *)
(* properties and [] otherwise; absent with a non-empty properties map     *)
(* gives []; a list of strings keeps its entries and their order.  In the  *)
(* returned schema the entries that name a reserved property of the node   *)
(* are in their "_prop_" form, and no other entry is rewritten.            *)
(***************************************************************************)
\* The node declares a property named s.
Declares(n, s) == IsDict(Get(n, "properties")) /\ HasKey(Get(n, "properties"), s)

\* A list of names with the entries naming a reserved property of node n in
\* their renamed form.
Renamed(n, names) ==
    List([i \in DOMAIN names |->
            IF names[i] \in _RESERVED_PROP_NAMES /\ Declares(n, names[i])
            THEN Str(NewName(names[i]))
            ELSE Str(names[i])])

HasProperties(n) == IsDict(Get(n, "properties")) /\ Get(n, "properties").kv # << >>

\* A number, a string, or a list with an entry that is not a string.
OtherShape(req) ==
    \/ req.t \in {"num", "str"}
    \/ IsList(req) /\ ~IsStrList(req)

RequiredFalse(p) ==
    Get(p.in, "required") = Bool(FALSE) => Get(p.out, "required") = List(<< >>)

RequiredMapping(p) ==
    LET req == Get(p.in, "required")
        names == SelectSeq(KeySeq(req), LAMBDA k : Truthy(Get(req, k)))
    IN IsDict(req) => Get(p.out, "required") = Renamed(p.in, names)

RequiredOther(p) ==
    OtherShape(Get(p.in, "required"))
        => Get(p.out, "required") =
               IF HasProperties(p.in) THEN NormalizedKeyList(p.in) ELSE List(<< >>)

RequiredAbsent(p) ==
    ~HasKey(p.in, "required") /\ HasProperties(p.in)
        => HasKey(p.out, "required") /\ Get(p.out, "required") = List(<< >>)

RequiredStrings(p) ==
    LET req == Get(p.in, "required")
    IN IsStrList(req)
           => Get(p.out, "required") = Renamed(p.in, [i \in DOMAIN req.e |-> req.e[i].s])

C22_RequiredTable ==
    Returned =>
        \A p \in NodePairs(schema, normalized) :
            /\ RequiredFalse(p)
            /\ RequiredMapping(p)
            /\ RequiredOther(p)
            /\ RequiredAbsent(p)
            /\ RequiredStrings(p)

(***************************************************************************)
(* C27.  normalize_schema_for_backend is idempotent: applied to the schema *)
(* it returned, it returns an equal schema and an empty rename map.        *)
(***************************************************************************)
C27_Idempotent ==
    Returned =>
        LET again == normalize_schema_for_backend(normalized)
        IN /\ ~again.raised
           /\ again.schema = normalized
           /\ again.rename_map = EmptyMap

\* A normalization that renamed a property and coerced required, applied
\* once more to its own output.
C27_Witness ==
    /\ Returned
    /\ IsDict(schema)
    /\ DOMAIN rename_map # {}
    /\ IsDict(Get(normalized, "properties"))
    /\ HasKey(Get(normalized, "properties"), "_prop_type")
    /\ Get(schema, "required") = Bool(TRUE)
    /\ Get(normalized, "required") = KeyList(Get(normalized, "properties"))
    /\ normalize_schema_for_backend(normalized).schema = normalized

(***************************************************************************)
(* C28.  Normalization loses no property: at every object node the output  *)
(* properties map has as many keys as the input properties map and         *)
(* distinct input keys are kept under distinct output keys, also when the  *)
(* input declares "_prop_" + reserved name next to the reserved name.      *)
(***************************************************************************)
C28_NoPropertyLost ==
    Returned =>
        \A p \in NodePairs(schema, normalized) :
            LET pin == Get(p.in, "properties")
                pout == Get(p.out, "properties")
            IN IsDict(pin) =>
                   /\ IsDict(pout)
                   /\ Len(pout.kv) = Len(pin.kv)
                   /\ \A i, j \in DOMAIN pin.kv :
                          i # j => NormalizedName(pin.kv[i][1]) # NormalizedName(pin.kv[j][1])
                   /\ \A i \in DOMAIN pin.kv : HasKey(pout, NormalizedName(pin.kv[i][1]))

(***************************************************************************)
(* Vocabulary of the properties of partial emissions                       *)
(***************************************************************************)
\* The text a chunk carries.
PartOf(c) == IF c.k = "data" THEN c.part ELSE << >>

\* The emissions made by `yield content, None`: all of them but the terminal
\* emission of a stream that is done.
Partials == IF spc = "done" THEN SubSeq(emissions, 1, Len(emissions) - 1) ELSE emissions

\* The incremental chunks received: LM Studio's chunks and Ollama's lines
\* that parse, the one that signals completion included.
Received == SelectSeq(chunks, LAMBDA c : c.k \in {"data", "nochoices"})

\* The chunks received that do not signal completion.
Unfinished == SelectSeq(chunks, LAMBDA c : c.k = "nochoices" \/ (c.k = "data" /\ ~c.done))

\* The emissions es are one per chunk of cs, each with an absent result and
\* the text of the one before extended by the content of its chunk.
OnePerChunk(es, cs) ==
    /\ Len(es) = Len(cs)
    /\ \A i \in 1..Len(es) :
         /\ i <= Len(cs)
         /\ es[i].result = Null
         /\ es[i].text = (IF i = 1 THEN << >> ELSE es[i - 1].text) \o PartOf(cs[i])

(***************************************************************************)
(* C23.  generate_structured_stream of both clients emits one              *)
(* (accumulatedText, absent) pair for every incremental chunk received,    *)
(* the chunk that signals completion included: the number of partial       *)
(* emissions is the number of chunks received, and the text of each        *)
(* emission is the text of the previous one extended by the content of     *)
(* that chunk.                                                             *)
(***************************************************************************)
C23_EmissionPerChunk == spc # "idle" => OnePerChunk(Partials, Received)

\* C23 as amended: one partial emission for every chunk received that does
\* not signal completion (LM Studio: every chunk; Ollama: every line that
\* parses and whose done flag is not set), each with the text of the
\* previous emission extended by the content of its chunk.  The Ollama
\* chunk that signals completion gives no partial emission: its content is
\* added to the text of the terminal emission, which is made at once.
C23_EmissionPerUnfinishedChunk ==
    spc # "idle" =>
        /\ OnePerChunk(Partials, Unfinished)
        /\ spc = "done" =>
             Last(emissions).text =
                 (IF Partials = << >> THEN << >> ELSE Last(Partials).text)
                   \o (IF chunks # << >> /\ Last(chunks).k = "data" /\ Last(chunks).done
                       THEN Last(chunks).part ELSE << >>)

\* An Ollama stream of three lines with content, the third with the done
\* flag: two partial emissions, then the terminal one.
C23_Witness ==
    /\ kind = "ollama"
    /\ spc = "done"
    /\ Len(chunks) = 3
    /\ \A i \in 1..3 : chunks[i].k = "data" /\ chunks[i].part # << >>
    /\ chunks[3].done
    /\ Len(emissions) = 3
    /\ emissions[2].text # emissions[1].text
    /\ emissions[2].result = Null
    /\ emissions[3].result = Dict(<< <<"a", Num(1)>> >>)

(***************************************************************************)
(* C24.  When a stream completes with accumulated text that is not blank   *)
(* and not valid JSON, both clients end the call with a malformed-response *)
(* error whose message holds the truncated raw content and the parse       *)
(* error, and no emission with a parsed result has been made.              *)
(***************************************************************************)
C24_MalformedStreamError ==
    spc \in {"done", "raised"} /\ StripTruthy(content) /\ ~JsonLoads(content).ok =>
        /\ spc = "raised"
        /\ sfail.parse
        /\ sfail.preview = Preview(content)
        /\ \A i \in DOMAIN emissions : emissions[i].result = Null

(***************************************************************************)
(* SchemaAgent.run and SchemaAgent.run_stream                              *)
(***************************************************************************)
\* The schemas the pairing may hold: empty, without and with reserved
\* property names (at the top and under items), and one that the
\* normalizer cannot handle.
AgentSchemas ==
    { Dict(<< >>),
      Dict(<< <<"properties", Dict(<< <<"a", StrSchema>> >>)>>, <<"required", Bool(TRUE)>> >>),
      Dict(<< <<"properties", Dict(<< <<"type", StrSchema>> >>)>> >>),
      Dict(<< <<"properties",
                Dict(<< <<"type",
                          Dict(<< <<"type", Str("array")>>,
                                  <<"items", Dict(<< <<"properties",
                                                       Dict(<< <<"type", StrSchema>> >>)>> >>)>> >>)>> >>)>>,
              <<"required", List(<<Str("type")>>)>> >>),
      Dict(<< <<"properties", Null>>, <<"required", Bool(TRUE)>> >>) }

\* What the model-list request of generate_structured may meet.
AgentBackends ==
    {[k |-> "refused"], [k |-> "list", entries |-> <<[t |-> "model", id |-> <<"b">>]>>]}

InitAgent ==
    /\ pc = "start"
    /\ schema \in AgentSchemas
    /\ normalized = Null
    /\ rename_map = EmptyMap
    /\ same = FALSE
    /\ expected = Null
    /\ response = Null
    /\ restored = Null
    /\ kind \in {"lmstudio", "ollama"}
    /\ model = NoModel
    /\ configured = NoModel
    /\ backend = NoReply
    /\ chat = NoReply
    /\ ret = NoCall
    /\ defaulted = NoModel
    /\ StreamIdle
    /\ method \in {"run", "run_stream"}
    /\ sent = NotSent
    /\ outpath \in BOOLEAN
    /\ outfile = NoFile
    /\ FactoryIdle
    /\ RepoIdle
    /\ CreatorIdle

\* run after the normalization: the call of the client, and with its result
\* the restoration, the output file and the return.
RunGenerate ==
    /\ method = "run"
    /\ pc = "normalized"
    /\ sent' = normalized
    /\ \E reply \in AgentBackends : \E g \in _get_models(reply) :
       \E c \in ChatReplies \cup {NoReply} :
       \E o \in generate_structured(kind, model, g, c) :
            /\ backend' = reply
            /\ chat' = c
            /\ ret' = o.r
            /\ model' = o.model
            /\ defaulted' = Track(defaulted, model, ensure_model(kind, model, g), g)
            /\ IF o.r.exc # ""
               THEN /\ pc' = "failed"
                    /\ UNCHANGED <<response, restored, outfile>>
               ELSE /\ pc' = "returned"
                    /\ response' = o.r.value
                    /\ restored' = restore_response_keys(o.r.value, rename_map)
                    /\ outfile' = IF outpath
                                  THEN json_dumps(restore_response_keys(o.r.value, rename_map))
                                  ELSE outfile
    /\ configured' = model
    /\ UNCHANGED <<schema, normalized, rename_map, same, expected, kind, method, outpath>>
    /\ UNCHANGED <<streamVars, factoryVars, repoVars, creatorVars>>

\* run_stream after the normalization: the stream of the client is opened
\* with the normalized schema.
OpenStream ==
    /\ method = "run_stream"
    /\ pc = "normalized"
    /\ sent' = normalized
    /\ spc' = "open"
    /\ pc' = "streaming"
    /\ UNCHANGED <<schema, normalized, rename_map, same, expected, response, restored>>
    /\ UNCHANGED <<clientVars, chunks, content, emissions, passed, serr, sfail>>
    /\ UNCHANGED <<method, outpath, outfile, factoryVars, repoVars, creatorVars>>

NextAgent == Normalize \/ RunGenerate \/ OpenStream \/ ReceiveChunk \/ StreamEnds

SpecAgent == InitAgent /\ [][NextAgent]_vars

(***************************************************************************)
(* C21.  In run and run_stream the schema handed to the client is the      *)
(* output of normalize_schema_for_backend for the pairing's schema; every  *)
(* parsed result that is returned, emitted as terminal result or written   *)
(* to the output file is the client's result passed through                *)
(* restore_response_keys with the rename map of that normalization;        *)
(* partial emissions are passed on with an absent result, and the output   *)
(* file is written only at the terminal emission.                          *)
(***************************************************************************)
C21_NormalizedInRestoredOut ==
    LET n == normalize_schema_for_backend(schema)
        through(x) == restore_response_keys(x, n.rename_map)
    IN /\ sent # NotSent => ~n.raised /\ sent = n.schema
       /\ pc = "returned"
            => /\ restored = through(response)
               /\ outfile # NoFile => outfile = json_dumps(through(response))
       /\ Len(passed) = Len(emissions)
       /\ \A i \in DOMAIN passed :
            /\ i <= Len(emissions)
            /\ passed[i].text = emissions[i].text
            /\ passed[i].result =
                   IF emissions[i].result = Null THEN Null ELSE through(emissions[i].result)
            /\ i < Len(passed) \/ spc # "done" => passed[i].result = Null
       /\ outfile # NoFile
            => /\ outpath
               /\ pc = "returned" \/ spc = "done"
               /\ spc = "done"
                    => /\ Last(emissions).result # Null
                       /\ outfile = json_dumps(through(Last(emissions).result))

\* A stream for a schema with a reserved property name: the terminal
\* result comes back under the caller's name and is in the output file.
C21_Witness ==
    /\ method = "run_stream"
    /\ spc = "done"
    /\ outpath
    /\ sent # schema
    /\ DOMAIN rename_map = {"_prop_type"}
    /\ Len(emissions) >= 2
    /\ Last(emissions).result = Dict(<< <<"_prop_type", Num(1)>> >>)
    /\ Last(passed).result = Dict(<< <<"type", Num(1)>> >>)
    /\ outfile = json_dumps(Dict(<< <<"type", Num(1)>> >>))

(***************************************************************************)
(* Vocabulary of the properties of the probe                               *)
(***************************************************************************)
\* The preflights run on LM Studio and on Ollama, in order.
LMContacts == SelectSeq(Contacts, LAMBDA c : c.variant = "lmstudio")

OllamaContacts == SelectSeq(Contacts, LAMBDA c : c.variant = "ollama")

\* The LM Studio port asked for.
Requested == PortOr(fport, DEFAULT_PORT)

\* The common ports but the requested one, in list order.
Alternates == SelectSeq(COMMON_PORTS, LAMBDA p : p # Requested)

\* The positions of the alternates on which LM Studio answers.
Answering == {i \in DOMAIN Alternates : <<"lmstudio", Alternates[i]>> \in serving}

(***************************************************************************)
(* C25.  With auto_probe and a failed preflight on the requested LM Studio *)
(* port, create_client tries the ports of COMMON_PORTS in list order,      *)
(* without the requested one, and returns the client of the first port     *)
(* whose preflight passes, contacting no later port; if none passes the    *)
(* LM Studio attempt fails.  Without auto_probe no LM Studio port but the  *)
(* requested one is contacted, and Ollama is contacted on one port only.   *)
(***************************************************************************)
C25_ProbeInListOrder ==
    Created =>
        /\ fmode # "ollama" => LMContacts # << >> /\ LMContacts[1].port = Requested
        /\ fmode # "ollama" /\ fprobe /\ ~LMContacts[1].ok =>
             LET probes == Tail(LMContacts)
             IN /\ Len(probes) <= Len(Alternates)
                /\ \A i \in DOMAIN probes :
                     /\ i <= Len(Alternates)
                     /\ probes[i].port = Alternates[i]
                     /\ probes[i].ok = (i \in Answering)
                     /\ i < Len(probes) => ~probes[i].ok
                /\ Answering # {} =>
                     /\ created.exc = ""
                     /\ created.variant = "lmstudio"
                     /\ \A i \in Answering :
                          (\A j \in Answering : i <= j) =>
                              created.port = Alternates[i] /\ Len(probes) = i
                     /\ OllamaContacts = << >>
                /\ Answering = {} =>
                     /\ Len(probes) = Len(Alternates)
                     /\ created.variant # "lmstudio"
                     /\ fmode = "lmstudio" => created.exc = "RuntimeError"
                     /\ fmode = "auto" => Len(OllamaContacts) = 1
        /\ ~fprobe => Len(LMContacts) <= 1
        /\ Len(OllamaContacts) <= 1
        /\ \A i \in DOMAIN OllamaContacts :
             OllamaContacts[i].port = PortOr(fport, OLLAMA_DEFAULT_PORT)

\* A port outside the list fails; 1234 fails, 4321 passes and 8080, where
\* LM Studio answers too, is not contacted.
C25_Witness ==
    /\ Created
    /\ fprobe
    /\ fport = 9999
    /\ <<"lmstudio", 8080>> \in serving
    /\ Len(LMContacts) = 3
    /\ created.exc = ""
    /\ created.port = 4321

(***************************************************************************)
(* _set_active_model: the 'model <name>' and 'models --set' commands       *)
(***************************************************************************)
\* Names the command may be given.
Desired ==
    {NoModel, <<" ">>, <<"c">>, <<" ", "b", " ">>, <<"a", "b">>,
     <<"a", "b", ":", "1">>}

\* _set_active_model(client, desired) on a client of class k with
\* self.model = m: g is the outcome of _get_models, for the calls that reach
\* ensure_model.  The name is stored on the client before ensure_model
\* looks it up.
_set_active_model(k, m, desired, g) ==
    LET name == Strip(desired)
        e == ensure_model(k, name, g)
    IN IF name = << >>
       THEN [r |-> [Outcome("_set_active_model") EXCEPT
                      !.exc = "ValueError", !.msg = "Model name cannot be empty."],
             model |-> m]
       ELSE [r |-> [e.r EXCEPT !.op = "_set_active_model"], model |-> e.model]

SetActiveModel ==
    /\ ret = NoCall
    /\ \E desired \in Desired :
         IF Strip(desired) = << >>
         THEN /\ backend' = NoReply
              /\ ret' = _set_active_model(kind, model, desired, [exc |-> "", models |-> << >>]).r
              /\ UNCHANGED <<model, defaulted>>
         ELSE \E reply \in Replies : \E g \in _get_models(reply) :
                /\ backend' = reply
                /\ ret' = _set_active_model(kind, model, desired, g).r
                /\ model' = _set_active_model(kind, model, desired, g).model
                /\ defaulted' = NoModel
    /\ configured' = model
    /\ chat' = NoReply
    /\ UNCHANGED kind
    /\ UNCHANGED outsideClient

\* The interactive loop: commands that switch the model, and runs.
NextSwitch == SetActiveModel \/ GenerateStructured \/ CallReturns

SpecSwitch == InitClient /\ [][NextSwitch]_vars

\* The command raised because the name it was given is not among the ids
\* reported, or matches several of them.
SwitchFailed ==
    /\ ret.op = "_set_active_model"
    /\ ret.exc = "RuntimeError"
    /\ ret.msg = "not found"

\* C29: a failed model switch leaves the active model unchanged: when
\* _set_active_model raises because the requested name is absent or
\* ambiguous, the client's model field equals its value before the command.
C29_FailedSwitchKeepsModel == SwitchFailed => model = configured

(***************************************************************************)
(* The store of several pairings: save and list_all                        *)
(***************************************************************************)
\* Names given to save.
RawNames ==
    {<<"a">>, <<"A", "!">>, <<"!">>, <<"a", " ", "-", "backup", " ", "a">>}

PairingDirs == {path(name) : name \in RawNames}

StoreDirs == PairingDirs \cup {BackupOf(d, t) : d \in PairingDirs, t \in Times}

\* The characters of directory names that are not digits, in code point
\* order: the digits come before them.
AfterDigits == <<"_", "a", "backup", "untitled">>

Rank(c) ==
    IF \E t \in Times : ToString(t) = c
    THEN CHOOSE t \in Times : ToString(t) = c
    ELSE MaxTime + (CHOOSE i \in DOMAIN AfterDigits : AfterDigits[i] = c)

\* x < y, for names
RECURSIVE Less(_, _)
Less(x, y) ==
    IF x = << >> THEN y # << >>
    ELSE IF y = << >> THEN FALSE
    ELSE IF x[1] = y[1] THEN Less(Tail(x), Tail(y))
    ELSE Rank(x[1]) < Rank(y[1])

\* sorted(names)
RECURSIVE Sorted(_)
Sorted(names) ==
    IF names = {} THEN << >>
    ELSE LET first == CHOOSE x \in names : \A y \in names \ {x} : Less(x, y)
         IN <<first>> \o Sorted(names \ {first})

\* list_all(): the entries yielded, in order, with the name and the two
\* flags of each.
list_all(fs) ==
    LET dirs == Sorted({d \in DOMAIN fs : fs[d] # Absent})
        shown == SelectSeq(dirs, LAMBDA d : ~Contains(<<"_", "backup", "_">>, d))
    IN [i \in DOMAIN shown |->
          [name |-> shown[i],
           schema_exists |-> fs[shown[i]].k = "files",
           prompt_exists |-> fs[shown[i]].k = "files"]]

\* The store before the first save: base_dir is missing, or holds the
\* empty directories of the pairings.
InitStore ==
    /\ NormIdle
    /\ ClientIdle
    /\ StreamIdle
    /\ AgentIdle
    /\ FactoryIdle
    /\ CreatorIdle
    /\ \E e \in {Absent, EmptyDir} :
         disk = [d \in StoreDirs |-> IF d \in PairingDirs THEN e ELSE Absent]
    /\ attempts = 0
    /\ written = {}
    /\ lastsave = NoSave
    /\ saved = {}
    /\ listing = NoListing

SaveNamed ==
    /\ attempts < MaxSaves
    /\ \E name \in RawNames : \E t \in Times :
       \E r \in save_named(disk, name, attempts + 1, t) :
         /\ disk' = r.fs
         /\ lastsave' = [op |-> "save", exc |-> r.exc, n |-> attempts + 1, t |-> t]
         /\ written' = IF r.exc = "" THEN written \cup {attempts + 1} ELSE written
         /\ saved' = IF r.exc = "" THEN saved \cup {name} ELSE saved
    /\ attempts' = attempts + 1
    /\ listing' = NoListing
    /\ UNCHANGED outsideRepo

ListAll ==
    /\ listing = NoListing
    /\ listing' = [k |-> "listed", entries |-> list_all(disk)]
    /\ UNCHANGED <<disk, attempts, written, lastsave, saved>>
    /\ UNCHANGED outsideRepo

NextStore == SaveNamed \/ ListAll

SpecStore == InitStore /\ [][NextStore]_vars

\* The entries of the listing that carry the directory name d.
EntriesFor(d) == {i \in DOMAIN listing.entries : listing.entries[i].name = d}

\* C30: after any sequence of save calls, list_all yields exactly one entry
\* for every pairing name that was saved, under its sanitized directory
\* name and with schema_exists and prompt_exists true, and no entry for any
\* backup directory created by save.
C30_ListsSavedPairings ==
    listing # NoListing =>
        /\ \A name \in saved :
             \E i \in EntriesFor(path(name)) :
                /\ EntriesFor(path(name)) = {i}
                /\ listing.entries[i].schema_exists
                /\ listing.entries[i].prompt_exists
        /\ \A d \in PairingDirs : \A t \in Times : EntriesFor(BackupOf(d, t)) = {}

(***************************************************************************)
(* SchemaCreator.create                                                    *)
(***************************************************************************)
MaxCreates == 2

\* "".join(chars)
RECURSIVE Join(_)
Join(s) == IF s = << >> THEN "" ELSE s[1] \o Join(Tail(s))

\* The confirm_overwrite callback: none configured, or the answer it gives.
Confirms == {"none", "accept", "decline"}

\* What the model may answer the creator's request with: a result with a
\* schema and a prompt, with an empty schema, without schema, without
\* prompt, and answers that are not an object or not JSON.  A system_prompt
\* that is present is a string.
CreatorContents ==
    {<<"{", "\"response_schema\":", "{", "\"a\":", "1", "}", ",",
       "\"system_prompt\":", "\"x\"", "}">>,
     <<"{", "\"response_schema\":", "{", "}", ",", "\"system_prompt\":", "\"x\"", "}">>,
     <<"{", "\"system_prompt\":", "\"x\"", "}">>,
     <<"{", "\"response_schema\":", "{", "\"a\":", "1", "}", "}">>,
     <<"null">>, <<"[", "1", "]">>, <<"{">>}

\* What the chat request of the creator may meet.
CreatorChats ==
    {[k |-> "refused"], [k |-> "nochoices"]}
      \cup {[k |-> "content", content |-> c] : c \in CreatorContents}

\* A create that asks nobody when no callback is configured.
ProceedsUnlessDeclined(exists, force, confirm) == confirm # "decline"

\* create goes on to the request: the target is new, or force is set, or
\* the callback agrees to overwrite.
Proceeds(exists, force, confirm) == ~(exists /\ ~force) \/ confirm = "accept"

\* create from the return of generate_structured on: o is how the client's
\* call ended, safe the sanitized name; the save, if it comes to it, is the
\* n-th, at time t.  The outcomes, with the store and whether save was
\* called.
StoreResult(fs, safe, o, n, t) ==
    LET out(exc, msg) ==
            [exc |-> exc, msg |-> msg, value |-> Null, fs |-> fs, called |-> FALSE]
        named == Put(o.value, "schema_name", Str(Join(safe)))
    IN IF o.exc # "" THEN {out(o.exc, o.msg)}
       ELSE IF ~IsDict(o.value) THEN {out("TypeError", "")}
       ELSE IF ~Truthy(Get(named, "response_schema"))
            THEN {out("RuntimeError", "Generated schema missing response_schema")}
       ELSE IF ~HasKey(named, "system_prompt") THEN {out("KeyError", "system_prompt")}
       ELSE {[exc |-> s.exc, msg |-> "",
              value |-> IF s.exc = "" THEN named ELSE Null,
              fs |-> s.fs, called |-> TRUE] : s \in save_named(fs, safe, n, t)}

\* A client without a configured model, and a store that is empty or holds
\* the pairings of an earlier session.
InitCreator ==
    /\ NormIdle
    /\ kind \in {"lmstudio", "ollama"}
    /\ model = NoModel
    /\ configured = NoModel
    /\ backend = NoReply
    /\ chat = NoReply
    /\ ret = NoCall
    /\ defaulted = NoModel
    /\ StreamIdle
    /\ AgentIdle
    /\ FactoryIdle
    /\ \E e \in {Absent, EmptyDir, Files(0)} :
         disk = [d \in StoreDirs |-> IF d \in PairingDirs THEN e ELSE Absent]
    /\ attempts = 0
    /\ written = {}
    /\ lastsave = NoSave
    /\ saved = {}
    /\ listing = NoListing
    /\ CreatorIdle

Create ==
    /\ cret = NoCreate
    /\ attempts < MaxCreates
    /\ \E name \in RawNames : \E force \in BOOLEAN : \E confirm \in Confirms :
         LET safe == sanitize_filename(name)
             exists == disk[path(safe)] # Absent
             asked == exists /\ ~force /\ confirm # "none"
         IN /\ cargs' = [name |-> name, force |-> force, confirm |-> confirm]
            /\ IF ~Proceeds(exists, force, confirm)
               THEN /\ cret' = [op |-> "create", exc |-> "", msg |-> "",
                                value |-> Dict(<< >>), asked |-> asked]
                    /\ UNCHANGED <<clientVars, repoVars>>
               ELSE \E reply \in AgentBackends : \E g \in _get_models(reply) :
                    \E c \in CreatorChats \cup {NoReply} :
                    \E o \in generate_structured(kind, model, g, c) :
                    \E t \in Times :
                    \E s \in StoreResult(disk, safe, o.r, attempts + 1, t) :
                      /\ backend' = reply
                      /\ chat' = c
                      /\ ret' = o.r
                      /\ model' = o.model
                      /\ defaulted' = Track(defaulted, model, ensure_model(kind, model, g), g)
                      /\ configured' = model
                      /\ cret' = [op |-> "create", exc |-> s.exc, msg |-> s.msg,
                                  value |-> s.value, asked |-> asked]
                      /\ disk' = s.fs
                      /\ IF s.called
                         THEN /\ attempts' = attempts + 1
                              /\ lastsave' = [op |-> "save", exc |-> s.exc,
                                              n |-> attempts + 1, t |-> t]
                              /\ written' = IF s.exc = "" THEN written \cup {attempts + 1}
                                            ELSE written
                              /\ saved' = IF s.exc = "" THEN saved \cup {safe} ELSE saved
                              /\ listing' = NoListing
                         ELSE UNCHANGED <<attempts, lastsave, written, saved, listing>>
                      /\ UNCHANGED kind
    /\ UNCHANGED <<normVars, streamVars, agentVars, factoryVars>>

\* The call has ended and its caller goes on; the client keeps self.model.
CreateReturns ==
    /\ cret # NoCreate
    /\ cret' = NoCreate
    /\ cargs' = << >>
    /\ ret' = NoCall
    /\ configured' = NoModel
    /\ backend' = NoReply
    /\ chat' = NoReply
    /\ UNCHANGED <<kind, model, defaulted>>
    /\ UNCHANGED <<normVars, streamVars, agentVars, factoryVars, repoVars>>

NextCreator == Create \/ CreateReturns

SpecCreator == InitCreator /\ [][NextCreator]_vars

\* The directory create looks for and saves to.
TargetOf(name) == path(sanitize_filename(name))

\* No request was sent to the backend.
NothingSent == backend = NoReply /\ chat = NoReply /\ ret = NoCall

\* C26: when the target pairing directory already exists and force is
\* false, create returns an empty dict without sending any request to the
\* backend and without creating, renaming or writing anything in the store,
\* both when no confirm callback is configured and when the callback
\* declines; the store is likewise left unchanged when the generated result
\* lacks response_schema.
C26_DeclinedCreateLeavesStore ==
    [][cret'.op = "create" =>
         /\ /\ disk[TargetOf(cargs'.name)] # Absent
            /\ ~cargs'.force
            /\ cargs'.confirm \in {"none", "decline"}
            => /\ cret'.exc = ""
               /\ cret'.value = Dict(<< >>)
               /\ NothingSent'
               /\ disk' = disk
         /\ /\ ret'.op = "generate_structured"
            /\ ret'.exc = ""
            /\ IsDict(ret'.value)
            /\ ~HasKey(ret'.value, "response_schema")
            => /\ cret'.exc = "RuntimeError"
               /\ disk' = disk]_vars

\* create was called without a callback for a pairing that holds files,
\* and returned the empty dict.
C26_Witness ==
    /\ cret.op = "create"
    /\ cargs.confirm = "none"
    /\ ~cargs.force
    /\ NonEmpty(disk[TargetOf(cargs.name)])
    /\ cret.value = Dict(<< >>)
    /\ written # {}

====
